---------------------------- MODULE Spec2Model ----------------------------
(***************************************************************************)
(* A model of the torrent-title metadata engine (torrentmetaparserv3.py):  *)
(* the title validity guard, the token normaliser, the pattern registries, *)
(* the season/episode disambiguator, the auxiliary extractors, the         *)
(* orchestrator parse() and the result post-processor.                     *)
(*                                                                         *)
(* Text is modelled at the level of characters and every registry entry is *)
(* the node tree of the regular expression the source compiles, matched by *)
(* a backtracking matcher with the priority order of Python's re module.   *)
(***************************************************************************)
EXTENDS Integers, Sequences, FiniteSets

(***************************************************************************)
(* Text.  A Python str is modelled as a sequence of one-character strings. *)
(***************************************************************************)
DIGIT == {"0","1","2","3","4","5","6","7","8","9"}
LOWER == {"a","b","c","d","e","f","g","h","i","j","k","l","m",
          "n","o","p","q","r","s","t","u","v","w","x","y","z"}
UPPER == {"A","B","C","D","E","F","G","H","I","J","K","L","M",
          "N","O","P","Q","R","S","T","U","V","W","X","Y","Z"}
SPACE == {" "}
\* the characters of [\u4E00-\u9FCC] that the patterns name; a character
\* outside ASCII, and the backquote, is written "U+<code point>"
CJK   == {"U+4E2D", "U+5B8C", "U+7B2C", "U+8BDD"}
WORD  == DIGIT \cup LOWER \cup UPPER \cup {"_"} \cup CJK

UpToLow == [c \in UPPER |->
  CASE c = "A" -> "a" [] c = "B" -> "b" [] c = "C" -> "c" [] c = "D" -> "d"
    [] c = "E" -> "e" [] c = "F" -> "f" [] c = "G" -> "g" [] c = "H" -> "h"
    [] c = "I" -> "i" [] c = "J" -> "j" [] c = "K" -> "k" [] c = "L" -> "l"
    [] c = "M" -> "m" [] c = "N" -> "n" [] c = "O" -> "o" [] c = "P" -> "p"
    [] c = "Q" -> "q" [] c = "R" -> "r" [] c = "S" -> "s" [] c = "T" -> "t"
    [] c = "U" -> "u" [] c = "V" -> "v" [] c = "W" -> "w" [] c = "X" -> "x"
    [] c = "Y" -> "y" [] c = "Z" -> "z"]

\* str.lower() on one character and on a string
LowerChar(c) == IF c \in UPPER THEN UpToLow[c] ELSE c
lower(s) == [i \in 1..Len(s) |-> LowerChar(s[i])]

\* The value v under the name the operator F gives it; v is computed before
\* F is applied to it
With(v, F(_)) == CASE v = v -> F(v)

\* "for k in range(lo, hi + 1): acc = Step(acc, k)": the value of acc after
\* the loop.  The range is halved, so that a long loop nests little.
RECURSIVE Loop(_, _, _, _)
Loop(Step(_, _), acc, lo, hi) ==
  CASE lo > hi -> acc
    [] lo = hi -> Step(acc, lo)
    [] lo < hi -> With(Loop(Step, acc, lo, (lo + hi) \div 2), LAMBDA half :
                    Loop(Step, half, (lo + hi) \div 2 + 1, hi))

\* min and max of a non-empty set of integers

min(S) == CHOOSE n \in S : \A m \in S : n <= m
max(S) == CHOOSE n \in S : \A m \in S : n >= m

(***************************************************************************)
(* Regular expressions.  A compiled pattern is a tree of nodes; Ends is the *)
(* backtracking matcher of the re module: it lists the ways a node matches *)
(* in the order in which the matcher tries them (greedy repeats take as    *)
(* much as they can first, lazy ones as little), so that the first way     *)
(* listed is the match the re module reports.                              *)
(***************************************************************************)
Lit(s)          == [t |-> "lit", s |-> s, ic |-> TRUE]
LitCS(s)        == [t |-> "lit", s |-> s, ic |-> FALSE]
In(S)           == [t |-> "in", s |-> S, neg |-> FALSE]
NotIn(S)        == [t |-> "in", s |-> S, neg |-> TRUE]
Cat(rs)         == [t |-> "seq", rs |-> rs]
Alt(rs)         == [t |-> "alt", rs |-> rs]
Rep(r, lo, hi)  == [t |-> "rep", r |-> r, lo |-> lo, hi |-> hi, greedy |-> TRUE, at |-> 0]
RepLazy(r, lo, hi) == [t |-> "rep", r |-> r, lo |-> lo, hi |-> hi, greedy |-> FALSE, at |-> 0]
Grp(n, r)       == [t |-> "grp", n |-> n, r |-> r]
Ahead(r)        == [t |-> "look", r |-> r, neg |-> FALSE]
NotAhead(r)     == [t |-> "look", r |-> r, neg |-> TRUE]
NotBehind(S)    == [t |-> "behind", s |-> S]
Bol             == [t |-> "bol"]
Eol             == [t |-> "eol"]
WordB           == [t |-> "wordb"]

NoMatch == <<>>
NoGroups == [n \in 1..6 |-> <<0, 0>>]

LitAt(l, ic, s, i) ==
  /\ i + Len(l) - 1 <= Len(s)
  /\ \A j \in 1..Len(l) :
       IF ic THEN LowerChar(s[i + j - 1]) = LowerChar(l[j]) ELSE s[i + j - 1] = l[j]

IsWordAt(s, i) == i >= 1 /\ i <= Len(s) /\ s[i] \in WORD

\* A node that consumes exactly one character, and whether c is such a one
IsOneChar(r) == r.t = "in" \/ (r.t = "lit" /\ Len(r.s) = 1)
CharOk(r, c) ==
  IF r.t = "in" THEN (c \in r.s) # r.neg
  ELSE IF r.ic THEN LowerChar(c) = LowerChar(r.s[1]) ELSE c = r.s[1]

\* How many of the characters from position i on the one-character node r
\* accepts in a row, at most cap of them
RunLength(r, s, i, cap) ==
  LET room == IF cap < 0 \/ cap > Len(s) - i + 1 THEN Len(s) - i + 1 ELSE cap
      stops == {n \in 0..(room - 1) : ~ CharOk(r, s[i + n])}
  IN IF stops = {} THEN room ELSE min(stops)

\* xss[lo] \o ... \o xss[hi], halved so that long lists nest little
RECURSIVE Flat(_, _, _)
Flat(xss, lo, hi) ==
  CASE lo > hi -> <<>>
    [] lo = hi -> xss[lo]
    [] lo < hi -> Flat(xss, lo, (lo + hi) \div 2) \o Flat(xss, (lo + hi) \div 2 + 1, hi)

\* the lists xss[1], xss[2], ... one after the other
Chain(xss) ==
  With({k \in DOMAIN xss : xss[k] # <<>>}, LAMBDA some :
    CASE some = {} -> <<>>
      [] Cardinality(some) = 1 -> xss[min(some)]
      [] Cardinality(some) > 1 -> Flat(xss, 1, Len(xss)))

\* Ends(r, s, st): every way the node r matches s from the state st, a pair
\* <<position, groups>>, as the states it leaves, in the order in which the
\* matcher would try them.
RECURSIVE Ends(_, _, _)
RECURSIVE SeqEnds(_, _, _, _, _)
RECURSIVE RepEnds(_, _, _)

\* the nodes rs[lo..hi] one after the other, from each of the states sts
SeqEnds(rs, lo, hi, s, sts) ==
  CASE lo > hi \/ sts = <<>> -> sts
    [] lo = hi /\ Len(sts) = 1 -> Ends(rs[lo], s, sts[1])
    [] lo = hi /\ Len(sts) > 1 ->
         With([k \in 1..Len(sts) |-> Ends(rs[lo], s, sts[k])], LAMBDA xss : Chain(xss))
    [] lo < hi /\ sts # <<>> ->
         SeqEnds(rs, (lo + hi) \div 2 + 1, hi, s, SeqEnds(rs, lo, (lo + hi) \div 2, s, sts))

\* A repeat of a node of any width: h.lo and h.hi count the iterations still
\* due and allowed (-1: any number), h.at is where the last one began; an
\* iteration that would begin where the last one did is not tried once the
\* minimum is reached.  A greedy repeat tries one more iteration before it
\* tries to stop, a lazy one the other way round.
RepEnds(h, s, st) ==
  With(IF h.hi # 0 /\ ~ (h.lo = 0 /\ h.at = st[1])
       THEN With(Ends(h.r, s, st), LAMBDA once :
              With([k \in 1..Len(once) |->
                      RepEnds([h EXCEPT !.lo = IF h.lo > 0 THEN h.lo - 1 ELSE 0,
                                        !.hi = IF h.hi > 0 THEN h.hi - 1 ELSE h.hi,
                                        !.at = st[1]], s, once[k])],
                   LAMBDA xss : Chain(xss)))
       ELSE <<>>,
       LAMBDA again :
         CASE h.lo > 0 -> again
           [] h.lo <= 0 /\ h.greedy -> Append(again, st)
           [] h.lo <= 0 /\ ~ h.greedy -> <<st>> \o again)

Ends(r, s, st) ==
  CASE r.t = "lit" ->
         IF LitAt(r.s, r.ic, s, st[1]) THEN <<<<st[1] + Len(r.s), st[2]>>>> ELSE <<>>
    [] r.t = "in" ->
         IF st[1] <= Len(s) /\ ((s[st[1]] \in r.s) # r.neg)
         THEN <<<<st[1] + 1, st[2]>>>> ELSE <<>>
    [] r.t = "seq" -> SeqEnds(r.rs, 1, Len(r.rs), s, <<st>>)
    [] r.t = "alt" ->
         With([j \in 1..Len(r.rs) |-> Ends(r.rs[j], s, st)], LAMBDA xss : Chain(xss))
    [] r.t = "rep" /\ IsOneChar(r.r) ->
         With(RunLength(r.r, s, st[1], r.hi), LAMBDA most :
           [k \in 1..(most - r.lo + 1) |->
              <<st[1] + (IF r.greedy THEN most - k + 1 ELSE r.lo + k - 1), st[2]>>])
    [] r.t = "rep" /\ ~ IsOneChar(r.r) -> RepEnds(r, s, st)
    [] r.t = "grp" ->
         With(Ends(r.r, s, st), LAMBDA es :
           [k \in 1..Len(es) |->
              <<es[k][1], [es[k][2] EXCEPT ![r.n] = <<st[1], es[k][1]>>]>>])
    [] r.t = "look" -> IF (Ends(r.r, s, st) # <<>>) # r.neg THEN <<st>> ELSE <<>>
    [] r.t = "behind" -> IF st[1] > 1 /\ s[st[1] - 1] \in r.s THEN <<>> ELSE <<st>>
    [] r.t = "bol" -> IF st[1] = 1 THEN <<st>> ELSE <<>>
    [] r.t = "eol" -> IF st[1] = Len(s) + 1 THEN <<st>> ELSE <<>>
    [] r.t = "wordb" -> IF IsWordAt(s, st[1] - 1) # IsWordAt(s, st[1]) THEN <<st>> ELSE <<>>

\* A match object: where it starts and ends (end exclusive) and its groups;
\* the match is the first of the ways the pattern matches from position i.
MatchAt(re, s, i) ==
  With(Ends(re, s, <<i, NoGroups>>), LAMBDA es :
    IF es = <<>> THEN NoMatch ELSE [start |-> i, end |-> es[1][1], g |-> es[1][2]])

\* pattern.search(s) from position i on: the leftmost match, or NoMatch
SearchFrom(re, s, i) ==
  With([j \in i..(Len(s) + 1) |-> MatchAt(re, s, j)], LAMBDA ms :
    With({j \in i..(Len(s) + 1) : ms[j] # NoMatch}, LAMBDA from :
      IF from = {} THEN NoMatch ELSE ms[min(from)]))

\* pattern.search(s) and pattern.match(s)
search(re, s) == With(s, LAMBDA text : SearchFrom(re, text, 1))
match(re, s) == With(s, LAMBDA text : MatchAt(re, text, 1))

\* pattern.finditer(s): the non-overlapping matches, left to right
RECURSIVE FindFrom(_, _, _)
FindFrom(re, s, i) ==
  With(SearchFrom(re, s, i), LAMBDA m :
    IF m = NoMatch THEN <<>>
    ELSE <<m>> \o FindFrom(re, s, IF m.end > m.start THEN m.end ELSE m.end + 1))

finditer(re, s) == With(s, LAMBDA text : FindFrom(re, text, 1))

\* match.group(0), match.group(n) (None is the empty group <<0, 0>>) 
group0(s, m) == SubSeq(s, m.start, m.end - 1)
group(s, m, n) == SubSeq(s, m.g[n][1], m.g[n][2] - 1)

(***************************************************************************)
(* str methods and builtins the engine uses.                               *)
(***************************************************************************)
\* Python's None: a value no str is equal to
None == <<"None">>

\* c.isalnum() for one character of the alphabet
isalnum(c) == c \in DIGIT \cup LOWER \cup UPPER \cup CJK

\* s.isdigit()
isdigit(s) == s # <<>> /\ \A i \in 1..Len(s) : s[i] \in DIGIT

DigitVal == [c \in DIGIT |->
  CASE c = "0" -> 0 [] c = "1" -> 1 [] c = "2" -> 2 [] c = "3" -> 3 [] c = "4" -> 4
    [] c = "5" -> 5 [] c = "6" -> 6 [] c = "7" -> 7 [] c = "8" -> 8 [] c = "9" -> 9]

\* int(s) for a string of digits
RECURSIVE int(_)
int(s) == IF s = <<>> THEN 0
          ELSE 10 * int(SubSeq(s, 1, Len(s) - 1)) + DigitVal[s[Len(s)]]

\* str(n) for n >= 0
RECURSIVE str(_)
str(n) == IF n < 10 THEN <<CHOOSE c \in DIGIT : DigitVal[c] = n>>
          ELSE str(n \div 10) \o str(n % 10)

\* s.zfill(w)
zfill(s, w) == IF Len(s) >= w THEN s ELSE [i \in 1..(w - Len(s)) |-> "0"] \o s

\* f"{n:02d}"
fmt02d(n) == zfill(str(n), 2)

StartsAt(s, i, sub) ==
  i + Len(sub) - 1 <= Len(s) /\ \A j \in 1..Len(sub) : s[i + j - 1] = sub[j]

\* sub in s, s.startswith(p), s.endswith(p), s.count(c)
contains(s, sub) == \E i \in 1..(Len(s) - Len(sub) + 1) : StartsAt(s, i, sub)
startswith(s, p) == StartsAt(s, 1, p)
endswith(s, p) == Len(p) <= Len(s) /\ StartsAt(s, Len(s) - Len(p) + 1, p)
count(s, c) == Cardinality({i \in 1..Len(s) : s[i] = c})

\* s.replace(old, new): every occurrence, left to right
RECURSIVE ReplaceFrom(_, _, _, _)
ReplaceFrom(s, i, old, new) ==
  LET at == {j \in i..(Len(s) - Len(old) + 1) : StartsAt(s, j, old)}
  IN IF at = {} THEN SubSeq(s, i, Len(s))
     ELSE SubSeq(s, i, min(at) - 1) \o new \o ReplaceFrom(s, min(at) + Len(old), old, new)

replace(s, old, new) == With(s, LAMBDA text : ReplaceFrom(text, 1, old, new))

\* s.strip()
lstrip(s) ==
  LET keep == {j \in 1..Len(s) : s[j] \notin SPACE}
  IN IF keep = {} THEN <<>> ELSE SubSeq(s, min(keep), Len(s))
rstrip(s) ==
  LET keep == {j \in 1..Len(s) : s[j] \notin SPACE}
  IN IF keep = {} THEN <<>> ELSE SubSeq(s, 1, max(keep))
strip(s) == rstrip(lstrip(s))

\* s.split(c) for a one-character separator
RECURSIVE split(_, _)
split(s, c) ==
  IF \A i \in 1..Len(s) : s[i] # c THEN <<s>>
  ELSE LET i == CHOOSE k \in 1..Len(s) : s[k] = c /\ \A j \in 1..(k - 1) : s[j] # c
       IN <<SubSeq(s, 1, i - 1)>> \o split(SubSeq(s, i + 1, Len(s)), c)

\* sep.join(parts)
RECURSIVE join(_, _)
join(sep, parts) ==
  IF parts = <<>> THEN <<>>
  ELSE IF Len(parts) = 1 THEN parts[1]
  ELSE parts[1] \o sep \o join(sep, Tail(parts))

\* pattern.sub(repl, s) with a literal replacement
RECURSIVE SubFrom(_, _, _, _)
SubFrom(re, repl, s, i) ==
  With(SearchFrom(re, s, i), LAMBDA m :
    IF m = NoMatch THEN SubSeq(s, i, Len(s))
    ELSE SubSeq(s, i, m.start - 1) \o repl \o
         (IF m.end > m.start THEN SubFrom(re, repl, s, m.end)
          ELSE IF m.end > Len(s) THEN <<>>
          ELSE <<s[m.end]>> \o SubFrom(re, repl, s, m.end + 1)))

sub(re, repl, s) == With(s, LAMBDA text : SubFrom(re, repl, text, 1))

\* re.findall for a pattern without groups / with one group
findall0(re, s) == With(finditer(re, s), LAMBDA ms : [k \in 1..Len(ms) |-> group0(s, ms[k])])
findall1(re, s) == With(finditer(re, s), LAMBDA ms : [k \in 1..Len(ms) |-> group(s, ms[k], 1)])
ToSet(seq) == {seq[k] : k \in 1..Len(seq)}

(***************************************************************************)
(* Title validity (hashed-release guard) and pre-processing.               *)
(***************************************************************************)
reject_hashed_regexes == <<
  Cat(<<Bol, Rep(In(LOWER \cup UPPER \cup DIGIT), 32, 32)>>),
  Cat(<<Bol, Rep(In(LOWER \cup UPPER \cup DIGIT), 24, 24), Eol>>),
  Cat(<<Bol, Rep(In(LOWER \cup UPPER), 11, 11), Rep(In(DIGIT), 3, 3), Eol>>),
  Cat(<<Bol, Rep(In(LOWER \cup UPPER), 12, 12), Rep(In(DIGIT), 3, 3), Eol>>),
  Cat(<<Bol, Lit(<<"B","a","c","k","u","p","_">>), Rep(In(DIGIT), 5, -1), Lit(<<"S">>), Rep(In(DIGIT), 2, 2), Lit(<<"-">>), Rep(In(DIGIT), 2, 2), Eol>>),
  Cat(<<Bol, Lit(<<"1","2","3">>), Eol>>),
  Cat(<<Bol, Lit(<<"a","b","c">>), Eol>>),
  Cat(<<Bol, Lit(<<"a","b","c">>), In({" ","-",".","_"}), Lit(<<"x","y","z">>)>>),
  Cat(<<Bol, Lit(<<"b","0","0","b","s">>), Eol>>),
  Cat(<<Bol, Rep(In(DIGIT), 6, 6), Lit(<<"_">>), Rep(In(DIGIT), 2, 2), Eol>>),
  Cat(<<Bol, Rep(In(LOWER \cup UPPER \cup DIGIT), 30, 30)>>),
  Cat(<<Bol, Rep(In(LOWER \cup UPPER \cup DIGIT), 26, 26)>>),
  Cat(<<Bol, Rep(In(LOWER \cup UPPER \cup DIGIT), 39, 39)>>),
  Cat(<<Bol, Rep(In(LOWER \cup UPPER \cup DIGIT), 24, 24)>>),
  Cat(<<Bol, Lit(<<"S","e","a","s","o","n">>), Rep(In({" ","-",".","_"}), 0, -1), Rep(In(DIGIT), 1, -1), Eol>>),
  Cat(<<Bol, Lit(<<"S","p","e","c","i","a","l","s">>), Eol>>)
>>

pre_substitution_regexes == <<
  [re |-> Cat(<<Lit(<<".","E">>), Grp(1, Rep(In(DIGIT), 2, 4)), Lit(<<".">>), Rep(In(DIGIT), 6, 6), Lit(<<".">>), Grp(2, Cat(<<Rep(NotIn({"\n"}), 0, -1), Lit(<<"-","N","E","X","T">>)>>)), Eol>>),
   repl |-> <<".","S","0","1","E","$","1",".","$","2">>],
  [re |-> Cat(<<Bol, Lit(<<"[">>), Grp(1, RepLazy(NotIn({"]"}), 1, -1)), Rep(Rep(In(CJK), 1, -1), 0, 1), Lit(<<"]","[">>), Grp(2, RepLazy(NotIn({"]"}), 1, -1)), In(SPACE), Grp(3, Cat(<<In(CJK), RepLazy(NotIn({"]"}), 0, -1)>>)), Lit(<<"]","[">>), Rep(RepLazy(In(CJK), 1, -1), 0, 1), Grp(4, Rep(In(DIGIT), 1, 4)), Rep(RepLazy(In(CJK), 1, -1), 0, 1), Lit(<<"]">>)>>),
   repl |-> <<"[","$","{","s","u","b","g","r","o","u","p","}","]"," ","$","{","t","i","t","l","e","}"," ","-"," ","$","{","e","p","i","s","o","d","e","}"," ","-"," ">>],
  [re |-> Cat(<<Bol, Lit(<<"[">>), Grp(1, Cat(<<RepLazy(NotIn({"]"}), 0, -1), Alt(<<Lit(<<"L","o","l","i","H","o","u","s","e">>), Lit(<<"Z","E","R","O">>), Lit(<<"L","i","l","i","t","h","-","R","a","w","s">>), Lit(<<"S","k","y","m","o","o","n","-","R","a","w","s">>), Lit(<<"o","r","i","o","n"," ","o","r","i","g","i","n">>)>>), RepLazy(NotIn({"]"}), 0, -1)>>)), Lit(<<"]">>), Grp(2, RepLazy(NotIn({"[","]"}), 1, -1)), Alt(<<Cat(<<Lit(<<" ","-"," ">>), Grp(3, Rep(In(DIGIT \cup {"-"}), 1, -1)), Rep(In(SPACE), 0, -1)>>), Cat(<<Lit(<<"[">>), Rep(Lit(<<"U+7B2C">>), 0, 1), Grp(4, Cat(<<Rep(In(DIGIT), 1, -1), Rep(Cat(<<Lit(<<"-">>), Rep(In(DIGIT), 1, -1)>>), 0, 1)>>)), Rep(Lit(<<"U+8BDD">>), 0, 1), Rep(Alt(<<Lit(<<"E","N","D">>), Lit(<<"U+5B8C">>)>>), 0, 1), Lit(<<"]">>)>>)>>), Lit(<<"[">>)>>),
   repl |-> <<"[","$","{","s","u","b","g","r","o","u","p","}","]","[","$","{","t","i","t","l","e","}","]","[","$","{","e","p","i","s","o","d","e","}","]","[">>],
  [re |-> Cat(<<Bol, Lit(<<"[">>), Grp(1, Rep(NotIn({"]"}), 1, -1)), Lit(<<"]">>), Rep(Grp(2, Cat(<<Lit(<<"[">>), Ahead(Cat(<<RepLazy(NotIn({"]"}), 0, -1), In(CJK)>>)), Rep(NotIn({"]"}), 0, -1), Lit(<<"]">>)>>)), 1, -1), Lit(<<"[">>), Grp(3, RepLazy(NotIn({"]"}), 1, -1)), Lit(<<"]">>), Rep(Grp(4, Cat(<<Lit(<<"[">>), Rep(NotIn({"]"}), 1, -1), Lit(<<"]">>)>>)), 0, -1), Lit(<<"[">>), Grp(5, Cat(<<Rep(In(DIGIT), 1, -1), Rep(Cat(<<Lit(<<"-">>), Rep(In(DIGIT), 1, -1)>>), 0, 1)>>)), Rep(Grp(6, Cat(<<Lit(<<" ">>), Alt(<<Lit(<<"E","N","D">>), Lit(<<"F","i","n">>)>>)>>)), 0, 1), Lit(<<"]">>)>>),
   repl |-> <<"[","$","{","s","u","b","g","r","o","u","p","}","]"," ","$","{","t","i","t","l","e","}"," ","-"," ","$","{","e","p","i","s","o","d","e","}"," ">>],
  [re |-> Cat(<<Bol, Grp(1, Cat(<<RepLazy(NotIn({"\n"}), 1, -1), Ahead(Cat(<<In({" ","-",".","_"}), Lit(<<"(">>)>>))>>)), RepLazy(NotIn({"\n"}), 1, -1), Lit(<<"(">>), Grp(2, Rep(In(DIGIT), 4, 4)), Lit(<<"/">>), Grp(3, Cat(<<Lit(<<"S">>), Rep(NotIn({"/"}), 1, -1)>>))>>),
   repl |-> <<"$","{","t","i","t","l","e","}"," ","(","$","{","y","e","a","r","}",")"," ","-"," ","$","{","i","n","f","o","}"," ">>]
>>

\* a validity check that knows no reject signature, which parse must differ from
ValidWithoutSignatures(title) ==
  ~ (contains(lower(title), <<"p","a","s","s","w","o","r","d">>) /\ contains(lower(title), <<"y","e","n","c">>))
    /\ \E i \in 1..Len(title) : isalnum(title[i])

_is_valid_title(title) ==
  IF contains(lower(title), <<"p","a","s","s","w","o","r","d">>) /\ contains(lower(title), <<"y","e","n","c">>) THEN FALSE
  ELSE IF ~ \E i \in 1..Len(title) : isalnum(title[i]) THEN FALSE
  ELSE \E title_without_ext \in {sub(Cat(<<Lit(<<".">>), Rep(In(LOWER \cup UPPER \cup DIGIT), 2, 4), Eol>>), <<>>, title)} :
         \A pattern \in ToSet(reject_hashed_regexes) :
            match(pattern, title_without_ext) = NoMatch

\* One turn of the loop over the substitutions: one whose replacement is
\* empty, or whose pattern finds nothing, leaves the title as it is.
PreProcessStep(regexes, processed_title, j) ==
  IF /\ regexes[j].repl # <<>>
     /\ regexes[j].repl # None
     /\ search(regexes[j].re, processed_title) # NoMatch
  THEN sub(regexes[j].re, regexes[j].repl, processed_title)
  ELSE processed_title

_pre_process_title(title) ==
  Loop(LAMBDA processed_title, j : PreProcessStep(pre_substitution_regexes, processed_title, j),
       title, 1, Len(pre_substitution_regexes))

(***************************************************************************)
(* The token normaliser.                                                   *)
(***************************************************************************)
preserved_patterns == <<
  Cat(<<Rep(In(DIGIT), 1, -1), Rep(Lit(<<".">>), 0, 1), Rep(In(DIGIT), 0, -1), In({"G","K","M","g","k","m"}), Lit(<<"B">>)>>),
  Cat(<<Rep(In(DIGIT), 1, -1), Lit(<<".">>), Rep(In(DIGIT), 1, -1)>>),
  Cat(<<Lit(<<"W","E","B">>), In({"-","."}), Lit(<<"D","L">>)>>),
  Cat(<<Lit(<<"H","D">>), In({"-","."}), Lit(<<"R","i","p">>)>>),
  Cat(<<Lit(<<"B","D">>), In({"-","."}), Lit(<<"R","i","p">>)>>),
  Cat(<<Lit(<<"D","V","D">>), In({"-","."}), Lit(<<"R","i","p">>)>>),
  Cat(<<Lit(<<"W","E","B">>), In({"-","."}), Lit(<<"R","i","p">>)>>),
  Lit(<<"H","D","T","V">>),
  Lit(<<"B","l","u","R","a","y">>),
  Cat(<<Lit(<<"B","l","u">>), In({"-","."}), Lit(<<"R","a","y">>)>>),
  Lit(<<"T","e","l","e","c","i","n","e">>),
  Lit(<<"T","S">>),
  Lit(<<"T","C">>),
  Cat(<<Lit(<<"D","D","P">>), Rep(In(DIGIT), 1, -1), Rep(Lit(<<".">>), 0, 1), Rep(In(DIGIT), 0, -1)>>),
  Cat(<<Lit(<<"A","A","C">>), Rep(In(DIGIT), 0, -1), Rep(Lit(<<".">>), 0, 1), Rep(In(DIGIT), 0, -1)>>),
  Cat(<<Lit(<<"A","C">>), Rep(In(DIGIT), 1, -1), Rep(Lit(<<".">>), 0, 1), Rep(In(DIGIT), 0, -1)>>),
  Cat(<<Lit(<<"D","D">>), Rep(In(DIGIT), 0, -1), Rep(Lit(<<".">>), 0, 1), Rep(In(DIGIT), 0, -1)>>),
  Cat(<<Lit(<<"E","A","C">>), Rep(In(DIGIT), 0, -1)>>),
  Lit(<<"D","T","S">>),
  Lit(<<"T","r","u","e","H","D">>),
  Lit(<<"A","t","m","o","s">>),
  Cat(<<Lit(<<"M","P">>), Rep(In(DIGIT), 1, -1)>>),
  Lit(<<"H","E","V","C">>),
  Lit(<<"A","V","C">>),
  Lit(<<"A","V","1">>),
  Lit(<<"X","v","i","D">>),
  Lit(<<"D","i","v","X">>),
  Cat(<<Lit(<<"x">>), Rep(In(DIGIT), 1, -1)>>),
  Cat(<<Lit(<<"H">>), Rep(In(DIGIT), 1, -1)>>),
  Cat(<<Lit(<<"H",".">>), Rep(In(DIGIT), 1, -1)>>),
  Cat(<<Rep(In(DIGIT), 1, -1), Lit(<<"p">>)>>),
  Cat(<<Rep(In(DIGIT), 1, -1), Lit(<<"i">>)>>),
  Cat(<<Rep(In(DIGIT), 1, -1), Lit(<<"x">>), Rep(In(DIGIT), 1, -1)>>),
  Cat(<<Lit(<<"[">>), Rep(NotIn({"]"}), 1, -1), Lit(<<"]">>)>>),
  Cat(<<Lit(<<"(">>), Rep(In(SPACE), 0, -1), Alt(<<Lit(<<"1","9">>), Lit(<<"2","0">>)>>), Rep(In(DIGIT), 2, 2), Rep(In(SPACE), 0, -1), Lit(<<")">>)>>),
  Cat(<<Lit(<<"S">>), Rep(In(DIGIT), 1, -1), Lit(<<"E">>), Rep(In(DIGIT), 1, -1)>>),
  Cat(<<Lit(<<"S">>), Rep(In(DIGIT), 1, -1)>>),
  Cat(<<Lit(<<"S","e","a","s","o","n">>), Rep(In(SPACE), 1, -1), Rep(In(DIGIT), 1, -1)>>),
  Cat(<<WordB, Alt(<<Lit(<<"1","9">>), Lit(<<"2","0">>)>>), Rep(In(DIGIT), 2, 2), WordB>>),
  Cat(<<WordB, Alt(<<Lit(<<"1","9">>), Lit(<<"2","0">>)>>), Rep(In(DIGIT), 2, 2), Lit(<<"-">>), Alt(<<Lit(<<"1","9">>), Lit(<<"2","0">>)>>), Rep(In(DIGIT), 2, 2), WordB>>),
  Cat(<<WordB, Alt(<<Lit(<<"s","p","e","c","i","a","l">>), Lit(<<"o","v","a">>), Lit(<<"o","v","d">>), Lit(<<"o","a","v">>), Lit(<<"b","o","n","u","s">>), Lit(<<"e","x","t","r","a">>)>>), WordB>>),
  Cat(<<WordB, Lit(<<"p">>), Alt(<<Lit(<<"a","r","t">>), Lit(<<"t">>)>>), Rep(In(SPACE), 0, -1), Rep(In(DIGIT), 1, -1), WordB>>),
  Cat(<<WordB, Alt(<<Lit(<<"m","u","l","t","i">>), Lit(<<"d","u","a","l">>)>>), WordB>>)
>>

\* f'__PRESERVED_{i}_{len(placeholder_map)}__'
Placeholder(i, n) == <<"_","_","P","R","E","S","E","R","V","E","D","_">> \o str(i) \o <<"_">> \o str(n) \o <<"_","_">>

\* The matches of preserve pattern i (found in the text as it was when the
\* pattern's scan began) are replaced one by one; st is the text so far and
\* the placeholder map, in insertion order, as <<placeholder, original>>.
PreserveMatch(st, i, original) ==
  With(Placeholder(i, Len(st.map)), LAMBDA placeholder :
    [text |-> replace(st.text, original, placeholder),
     map |-> Append(st.map, <<placeholder, original>>)])

PreserveMatches(st, i, scanned, ms) ==
  Loop(LAMBDA acc, j : PreserveMatch(acc, i, group0(scanned, ms[j])), st, 1, Len(ms))

\* One turn of the loop over the preserve patterns, for the pattern of index
\* i (counted from 0); a pattern without a match leaves the text and the map
\* as they are.
PreserveStep(patterns, st, i) ==
  With(finditer(patterns[i + 1], st.text), LAMBDA ms :
    IF ms = <<>> THEN st ELSE PreserveMatches(st, i, st.text, ms))

PreserveFrom(patterns, st, i) ==
  Loop(LAMBDA acc, j : PreserveStep(patterns, acc, j), st, i, Len(patterns) - 1)

\* the loop that puts the originals back, in the order of the map
RestoreFrom(text, map, k) ==
  Loop(LAMBDA acc, j : replace(acc, map[j][1], map[j][2]), text, k, Len(map))

\* _normalize_title with its local placeholder_map exposed
NormalizeWithMap(title) ==
  IF ~ _is_valid_title(title) THEN [text |-> title, map |-> <<>>]
  ELSE With(_pre_process_title(title), LAMBDA processed_title :
       With(replace(replace(replace(processed_title, <<"U+2013">>, <<"-">>), <<"U+3010">>, <<"[">>), <<"U+3011">>, <<"]">>),
            LAMBDA dashed :
       With(PreserveFrom(preserved_patterns, [text |-> dashed, map |-> <<>>], 0), LAMBDA st :
       With(sub(NotIn(WORD \cup SPACE \cup {"-"}), <<" ">>, st.text), LAMBDA spaced :
       With(strip(sub(Rep(In(SPACE), 1, -1), <<" ">>, spaced)), LAMBDA stripped :
         [text |-> RestoreFrom(stripped, st.map, 1), map |-> st.map])))))

_normalize_title(title) == NormalizeWithMap(title).text

(***************************************************************************)
(* Seasons.                                                                *)
(***************************************************************************)
season_patterns == <<
  [name |-> "Complete Season", label |-> <<"C","o","m","p","l","e","t","e"," ","S","e","a","s","o","n">>, n |-> 0, groupindex |-> <<>>, re |->
     Cat(<<Lit(<<"c","o","m","p","l","e","t","e">>), Rep(In(SPACE), 1, -1), Lit(<<"s","e","a","s","o","n">>)>>)],
  [name |-> "Complete Seasons", label |-> <<"C","o","m","p","l","e","t","e"," ","S","e","a","s","o","n","s">>, n |-> 0, groupindex |-> <<>>, re |->
     Cat(<<Lit(<<"c","o","m","p","l","e","t","e">>), Rep(In(SPACE), 1, -1), Lit(<<"s","e","a","s","o","n","s">>)>>)],
  [name |-> "Full Season", label |-> <<"F","u","l","l"," ","S","e","a","s","o","n">>, n |-> 0, groupindex |-> <<>>, re |->
     Cat(<<Lit(<<"f","u","l","l">>), Rep(In(SPACE), 1, -1), Lit(<<"s","e","a","s","o","n">>)>>)],
  [name |-> "Season Pack", label |-> <<"S","e","a","s","o","n"," ","P","a","c","k">>, n |-> 0, groupindex |-> <<>>, re |->
     Cat(<<Lit(<<"s","e","a","s","o","n">>), Rep(In(SPACE), 1, -1), Lit(<<"p","a","c","k">>)>>)],
  [name |-> "All Seasons", label |-> <<"A","l","l"," ","S","e","a","s","o","n","s">>, n |-> 0, groupindex |-> <<>>, re |->
     Cat(<<Lit(<<"a","l","l">>), Rep(In(SPACE), 1, -1), Lit(<<"s","e","a","s","o","n","s">>)>>)],
  [name |-> "All Season", label |-> <<"A","l","l"," ","S","e","a","s","o","n">>, n |-> 0, groupindex |-> <<>>, re |->
     Cat(<<Lit(<<"a","l","l">>), Rep(In(SPACE), 1, -1), Lit(<<"s","e","a","s","o","n">>)>>)],
  [name |-> "Season #", label |-> <<"S","e","a","s","o","n"," ","#">>, n |-> 1, groupindex |-> <<>>, re |->
     Cat(<<Lit(<<"s","e","a","s","o","n">>), Rep(In({" ","-",".","_"}), 1, -1), Grp(1, Rep(In(DIGIT), 1, -1))>>)],
  [name |-> "Season ##", label |-> <<"S","e","a","s","o","n"," ","#","#">>, n |-> 1, groupindex |-> <<>>, re |->
     Cat(<<Lit(<<"s","e","a","s","o","n">>), Rep(In({" ","-",".","_"}), 1, -1), Grp(1, Rep(In(DIGIT), 2, 2))>>)],
  [name |-> "Season #-#", label |-> <<"S","e","a","s","o","n"," ","#","-","#">>, n |-> 2, groupindex |-> <<>>, re |->
     Cat(<<Lit(<<"s","e","a","s","o","n">>), Rep(In({" ","-",".","_"}), 1, -1), Grp(1, Rep(In(DIGIT), 1, -1)), Lit(<<"-">>), Grp(2, Rep(In(DIGIT), 1, -1))>>)],
  [name |-> "Season ##-##", label |-> <<"S","e","a","s","o","n"," ","#","#","-","#","#">>, n |-> 2, groupindex |-> <<>>, re |->
     Cat(<<Lit(<<"s","e","a","s","o","n">>), Rep(In({" ","-",".","_"}), 1, -1), Grp(1, Rep(In(DIGIT), 2, 2)), Lit(<<"-">>), Grp(2, Rep(In(DIGIT), 2, 2))>>)],
  [name |-> "Season #-Season #", label |-> <<"S","e","a","s","o","n"," ","#","-","S","e","a","s","o","n"," ","#">>, n |-> 2, groupindex |-> <<>>, re |->
     Cat(<<Lit(<<"s","e","a","s","o","n">>), Rep(In({" ","-",".","_"}), 1, -1), Grp(1, Rep(In(DIGIT), 1, -1)), Rep(In(SPACE), 0, -1), Lit(<<"-">>), Rep(In(SPACE), 0, -1), Lit(<<"s","e","a","s","o","n">>), Rep(In({" ","-",".","_"}), 1, -1), Grp(2, Rep(In(DIGIT), 1, -1))>>)],
  [name |-> "Season ##-Season ##", label |-> <<"S","e","a","s","o","n"," ","#","#","-","S","e","a","s","o","n"," ","#","#">>, n |-> 2, groupindex |-> <<>>, re |->
     Cat(<<Lit(<<"s","e","a","s","o","n">>), Rep(In({" ","-",".","_"}), 1, -1), Grp(1, Rep(In(DIGIT), 2, 2)), Rep(In(SPACE), 0, -1), Lit(<<"-">>), Rep(In(SPACE), 0, -1), Lit(<<"s","e","a","s","o","n">>), Rep(In({" ","-",".","_"}), 1, -1), Grp(2, Rep(In(DIGIT), 2, 2))>>)],
  [name |-> "S#", label |-> <<"S","#">>, n |-> 1, groupindex |-> <<>>, re |->
     Cat(<<NotBehind(WORD), Lit(<<"S">>), Grp(1, In(DIGIT)), NotAhead(In(DIGIT))>>)],
  [name |-> "S##", label |-> <<"S","#","#">>, n |-> 1, groupindex |-> <<>>, re |->
     Cat(<<NotBehind(WORD), Lit(<<"S">>), Grp(1, Rep(In(DIGIT), 2, 2)), NotAhead(In(DIGIT))>>)],
  [name |-> "S#-#", label |-> <<"S","#","-","#">>, n |-> 2, groupindex |-> <<>>, re |->
     Cat(<<NotBehind(WORD), Lit(<<"S">>), Grp(1, In(DIGIT)), Lit(<<"-">>), Grp(2, In(DIGIT)), NotAhead(In(DIGIT))>>)],
  [name |-> "S##-##", label |-> <<"S","#","#","-","#","#">>, n |-> 2, groupindex |-> <<>>, re |->
     Cat(<<NotBehind(WORD), Lit(<<"S">>), Grp(1, Rep(In(DIGIT), 2, 2)), Lit(<<"-">>), Grp(2, Rep(In(DIGIT), 2, 2)), NotAhead(In(DIGIT))>>)],
  [name |-> "S#-S#", label |-> <<"S","#","-","S","#">>, n |-> 2, groupindex |-> <<>>, re |->
     Cat(<<NotBehind(WORD), Lit(<<"S">>), Grp(1, In(DIGIT)), Rep(In(SPACE), 0, -1), Lit(<<"-">>), Rep(In(SPACE), 0, -1), Lit(<<"S">>), Grp(2, In(DIGIT)), NotAhead(In(DIGIT))>>)],
  [name |-> "S##-S##", label |-> <<"S","#","#","-","S","#","#">>, n |-> 2, groupindex |-> <<>>, re |->
     Cat(<<NotBehind(WORD), Lit(<<"S">>), Grp(1, Rep(In(DIGIT), 2, 2)), Rep(In(SPACE), 0, -1), Lit(<<"-">>), Rep(In(SPACE), 0, -1), Lit(<<"S">>), Grp(2, Rep(In(DIGIT), 2, 2)), NotAhead(In(DIGIT))>>)],
  [name |-> "S#", label |-> <<"S","#">>, n |-> 1, groupindex |-> <<>>, re |->
     Cat(<<NotBehind(WORD), Lit(<<"S">>), Grp(1, Rep(In(DIGIT), 1, -1)), NotAhead(In(LOWER \cup UPPER \cup DIGIT \cup {"-"}))>>)],
  [name |-> "S#xE#", label |-> <<"S","#","x","E","#">>, n |-> 2, groupindex |-> <<>>, re |->
     Cat(<<Lit(<<"S">>), Grp(1, Rep(In(DIGIT), 1, -1)), Lit(<<"x">>), Rep(Lit(<<"e">>), 0, 1), Grp(2, Rep(In(DIGIT), 1, -1))>>)],
  [name |-> "S#xE#-#", label |-> <<"S","#","x","E","#","-","#">>, n |-> 3, groupindex |-> <<>>, re |->
     Cat(<<Lit(<<"S">>), Grp(1, Rep(In(DIGIT), 1, -1)), Lit(<<"x">>), Rep(Lit(<<"e">>), 0, 1), Grp(2, Rep(In(DIGIT), 1, -1)), Lit(<<"-">>), Grp(3, Rep(In(DIGIT), 1, -1))>>)],
  [name |-> "Stagione #", label |-> <<"S","t","a","g","i","o","n","e"," ","#">>, n |-> 1, groupindex |-> <<>>, re |->
     Cat(<<Lit(<<"s","t","a","g","i","o","n","e">>), Rep(In(SPACE), 1, -1), Grp(1, Rep(In(DIGIT), 1, -1))>>)],
  [name |-> "Stagioni #-#", label |-> <<"S","t","a","g","i","o","n","i"," ","#","-","#">>, n |-> 2, groupindex |-> <<>>, re |->
     Cat(<<Lit(<<"s","t","a","g","i","o","n","i">>), Rep(In(SPACE), 1, -1), Grp(1, Rep(In(DIGIT), 1, -1)), Lit(<<"-">>), Grp(2, Rep(In(DIGIT), 1, -1))>>)],
  [name |-> "Temporada #", label |-> <<"T","e","m","p","o","r","a","d","a"," ","#">>, n |-> 1, groupindex |-> <<>>, re |->
     Cat(<<Lit(<<"t","e","m","p","o","r","a","d","a">>), Rep(In(SPACE), 1, -1), Grp(1, Rep(In(DIGIT), 1, -1))>>)],
  [name |-> "Temporadas #-#", label |-> <<"T","e","m","p","o","r","a","d","a","s"," ","#","-","#">>, n |-> 2, groupindex |-> <<>>, re |->
     Cat(<<Lit(<<"t","e","m","p","o","r","a","d","a","s">>), Rep(In(SPACE), 1, -1), Grp(1, Rep(In(DIGIT), 1, -1)), Lit(<<"-">>), Grp(2, Rep(In(DIGIT), 1, -1))>>)],
  [name |-> "Saison #", label |-> <<"S","a","i","s","o","n"," ","#">>, n |-> 1, groupindex |-> <<>>, re |->
     Cat(<<Lit(<<"s","a","i","s","o","n">>), Rep(In(SPACE), 1, -1), Grp(1, Rep(In(DIGIT), 1, -1))>>)],
  [name |-> "Complete S#", label |-> <<"C","o","m","p","l","e","t","e"," ","S","#">>, n |-> 1, groupindex |-> <<>>, re |->
     Cat(<<Lit(<<"c","o","m","p","l","e","t","e">>), Rep(In(SPACE), 1, -1), Lit(<<"S">>), Grp(1, In(DIGIT))>>)],
  [name |-> "Complete S##", label |-> <<"C","o","m","p","l","e","t","e"," ","S","#","#">>, n |-> 1, groupindex |-> <<>>, re |->
     Cat(<<Lit(<<"c","o","m","p","l","e","t","e">>), Rep(In(SPACE), 1, -1), Lit(<<"S">>), Grp(1, Rep(In(DIGIT), 2, 2))>>)],
  [name |-> "Complete S#-S#", label |-> <<"C","o","m","p","l","e","t","e"," ","S","#","-","S","#">>, n |-> 2, groupindex |-> <<>>, re |->
     Cat(<<Lit(<<"c","o","m","p","l","e","t","e">>), Rep(In(SPACE), 1, -1), Lit(<<"S">>), Grp(1, In(DIGIT)), Rep(In(SPACE), 0, -1), Lit(<<"-">>), Rep(In(SPACE), 0, -1), Lit(<<"S">>), Grp(2, In(DIGIT))>>)],
  [name |-> "Complete S##-S##", label |-> <<"C","o","m","p","l","e","t","e"," ","S","#","#","-","S","#","#">>, n |-> 2, groupindex |-> <<>>, re |->
     Cat(<<Lit(<<"c","o","m","p","l","e","t","e">>), Rep(In(SPACE), 1, -1), Lit(<<"S">>), Grp(1, Rep(In(DIGIT), 2, 2)), Rep(In(SPACE), 0, -1), Lit(<<"-">>), Rep(In(SPACE), 0, -1), Lit(<<"S">>), Grp(2, Rep(In(DIGIT), 2, 2))>>)],
  [name |-> "Season # Complete", label |-> <<"S","e","a","s","o","n"," ","#"," ","C","o","m","p","l","e","t","e">>, n |-> 1, groupindex |-> <<>>, re |->
     Cat(<<Lit(<<"s","e","a","s","o","n">>), Rep(In(SPACE), 1, -1), Grp(1, Rep(In(DIGIT), 1, -1)), Rep(In(SPACE), 1, -1), Lit(<<"c","o","m","p","l","e","t","e">>)>>)],
  [name |-> "Season ## Complete", label |-> <<"S","e","a","s","o","n"," ","#","#"," ","C","o","m","p","l","e","t","e">>, n |-> 1, groupindex |-> <<>>, re |->
     Cat(<<Lit(<<"s","e","a","s","o","n">>), Rep(In(SPACE), 1, -1), Grp(1, Rep(In(DIGIT), 2, 2)), Rep(In(SPACE), 1, -1), Lit(<<"c","o","m","p","l","e","t","e">>)>>)],
  [name |-> "S# Complete", label |-> <<"S","#"," ","C","o","m","p","l","e","t","e">>, n |-> 1, groupindex |-> <<>>, re |->
     Cat(<<Lit(<<"S">>), Grp(1, In(DIGIT)), Rep(In(SPACE), 1, -1), Lit(<<"c","o","m","p","l","e","t","e">>)>>)],
  [name |-> "S## Complete", label |-> <<"S","#","#"," ","C","o","m","p","l","e","t","e">>, n |-> 1, groupindex |-> <<>>, re |->
     Cat(<<Lit(<<"S">>), Grp(1, Rep(In(DIGIT), 2, 2)), Rep(In(SPACE), 1, -1), Lit(<<"c","o","m","p","l","e","t","e">>)>>)],
  [name |-> "Full S#", label |-> <<"F","u","l","l"," ","S","#">>, n |-> 1, groupindex |-> <<>>, re |->
     Cat(<<Lit(<<"f","u","l","l">>), Rep(In(SPACE), 1, -1), Lit(<<"S">>), Grp(1, In(DIGIT))>>)],
  [name |-> "Full S##", label |-> <<"F","u","l","l"," ","S","#","#">>, n |-> 1, groupindex |-> <<>>, re |->
     Cat(<<Lit(<<"f","u","l","l">>), Rep(In(SPACE), 1, -1), Lit(<<"S">>), Grp(1, Rep(In(DIGIT), 2, 2))>>)],
  [name |-> "S####", label |-> <<"S","#","#","#","#">>, n |-> 1, groupindex |-> <<>>, re |->
     Cat(<<Lit(<<"S">>), Grp(1, Rep(In(DIGIT), 4, 4))>>)],
  [name |-> "Season # (####)", label |-> <<"S","e","a","s","o","n"," ","#"," ","(","#","#","#","#",")">>, n |-> 1, groupindex |-> <<>>, re |->
     Cat(<<Lit(<<"s","e","a","s","o","n">>), Rep(In(SPACE), 1, -1), Grp(1, Rep(In(DIGIT), 1, -1)), Rep(In(SPACE), 1, -1), Lit(<<"(">>), Rep(In(DIGIT), 4, 4), Lit(<<")">>)>>)],
  [name |-> "Season # Part #", label |-> <<"S","e","a","s","o","n"," ","#"," ","P","a","r","t"," ","#">>, n |-> 2, groupindex |-> <<>>, re |->
     Cat(<<Lit(<<"s","e","a","s","o","n">>), Rep(In(SPACE), 1, -1), Grp(1, Rep(In(DIGIT), 1, -1)), Rep(In(SPACE), 1, -1), Lit(<<"p","a","r","t">>), Rep(In(SPACE), 1, -1), Grp(2, Rep(In(DIGIT), 1, -1))>>)],
  [name |-> "S# Part #", label |-> <<"S","#"," ","P","a","r","t"," ","#">>, n |-> 2, groupindex |-> <<>>, re |->
     Cat(<<Lit(<<"S">>), Grp(1, In(DIGIT)), Rep(In(SPACE), 1, -1), Lit(<<"p","a","r","t">>), Rep(In(SPACE), 1, -1), Grp(2, Rep(In(DIGIT), 1, -1))>>)],
  [name |-> "Season # Vol #", label |-> <<"S","e","a","s","o","n"," ","#"," ","V","o","l"," ","#">>, n |-> 2, groupindex |-> <<>>, re |->
     Cat(<<Lit(<<"s","e","a","s","o","n">>), Rep(In(SPACE), 1, -1), Grp(1, Rep(In(DIGIT), 1, -1)), Rep(In(SPACE), 1, -1), Lit(<<"v","o","l">>), Rep(In(SPACE), 1, -1), Grp(2, Rep(In(DIGIT), 1, -1))>>)],
  [name |-> "Season # to #", label |-> <<"S","e","a","s","o","n"," ","#"," ","t","o"," ","#">>, n |-> 2, groupindex |-> <<>>, re |->
     Cat(<<Lit(<<"s","e","a","s","o","n">>), Rep(In(SPACE), 1, -1), Grp(1, Rep(In(DIGIT), 1, -1)), Rep(In(SPACE), 1, -1), Lit(<<"t","o">>), Rep(In(SPACE), 1, -1), Grp(2, Rep(In(DIGIT), 1, -1))>>)],
  [name |-> "S# to #", label |-> <<"S","#"," ","t","o"," ","#">>, n |-> 2, groupindex |-> <<>>, re |->
     Cat(<<Lit(<<"S">>), Grp(1, Rep(In(DIGIT), 1, -1)), Rep(In(SPACE), 1, -1), Lit(<<"t","o">>), Rep(In(SPACE), 1, -1), Grp(2, Rep(In(DIGIT), 1, -1))>>)],
  [name |-> "Season list", label |-> <<"S","e","a","s","o","n"," ","l","i","s","t">>, n |-> 1, groupindex |-> <<>>, re |->
     Cat(<<Lit(<<"s","e","a","s","o","n">>), Rep(In(SPACE), 1, -1), Grp(1, Cat(<<Rep(Cat(<<Rep(In(DIGIT), 1, -1), Rep(In(SPACE), 0, -1), In({" ","&",","}), Rep(In(SPACE), 0, -1)>>), 1, -1), Rep(In(DIGIT), 1, -1)>>))>>)],
  [name |-> "S list", label |-> <<"S"," ","l","i","s","t">>, n |-> 1, groupindex |-> <<>>, re |->
     Cat(<<NotBehind(WORD), Lit(<<"S">>), Grp(1, Cat(<<Rep(Cat(<<Rep(In(DIGIT), 1, -1), Rep(In(SPACE), 0, -1), In({" ","&",","}), Rep(In(SPACE), 0, -1)>>), 1, -1), Rep(In(DIGIT), 1, -1)>>)), NotAhead(In(WORD))>>)],
  [name |-> "S+S+S list", label |-> <<"S","+","S","+","S"," ","l","i","s","t">>, n |-> 1, groupindex |-> <<>>, re |->
     Cat(<<WordB, Grp(1, Rep(Cat(<<Lit(<<"S">>), Rep(Lit(<<"e","a","s","o","n">>), 0, 1), Rep(In(SPACE), 0, -1), Rep(In(DIGIT), 1, -1), Rep(In(SPACE), 0, -1), Rep(In({" ","+",",","-",".","_"}), 0, 1), Rep(In(SPACE), 0, -1)>>), 2, -1)), WordB>>)],
  [name |-> "Season Roman", label |-> <<"S","e","a","s","o","n"," ","R","o","m","a","n">>, n |-> 1, groupindex |-> <<>>, re |->
     Cat(<<Lit(<<"s","e","a","s","o","n">>), Rep(In(SPACE), 1, -1), Grp(1, Rep(In({"C","D","I","L","M","V","X","c","d","i","l","m","v","x"}), 1, -1))>>)],
  [name |-> "S Roman", label |-> <<"S"," ","R","o","m","a","n">>, n |-> 1, groupindex |-> <<>>, re |->
     Cat(<<NotBehind(WORD), Lit(<<"S">>), Grp(1, Rep(In({"C","D","I","L","M","V","X","c","d","i","l","m","v","x"}), 1, -1)), NotAhead(In(WORD))>>)],
  [name |-> "S###", label |-> <<"S","#","#","#">>, n |-> 1, groupindex |-> <<>>, re |->
     Cat(<<Lit(<<"S">>), Grp(1, Rep(In(DIGIT), 3, 3))>>)]
>>

season_priorities == <<
  <<"Season #", 30>>,
  <<"Season ##", 30>>,
  <<"S#", 30>>,
  <<"S##", 30>>,
  <<"S###", 30>>,
  <<"S####", 30>>,
  <<"Season #-#", 25>>,
  <<"Season ##-##", 25>>,
  <<"S#-#", 25>>,
  <<"S##-##", 25>>,
  <<"Season #-Season #", 25>>,
  <<"Season ##-Season ##", 25>>,
  <<"S#-S#", 25>>,
  <<"S##-S##", 25>>,
  <<"Season # to #", 25>>,
  <<"S# to #", 25>>,
  <<"Season list", 20>>,
  <<"S list", 20>>,
  <<"S+S+S list", 20>>,
  <<"Season # Complete", 15>>,
  <<"Season ## Complete", 15>>,
  <<"S# Complete", 15>>,
  <<"S## Complete", 15>>,
  <<"Complete S#", 15>>,
  <<"Complete S##", 15>>,
  <<"Complete S#-S#", 15>>,
  <<"Complete S##-S##", 15>>,
  <<"Complete Season", 10>>,
  <<"Complete Seasons", 10>>,
  <<"Full Season", 10>>,
  <<"Season Pack", 10>>,
  <<"All Seasons", 10>>,
  <<"All Season", 10>>,
  <<"Full S#", 10>>,
  <<"Full S##", 10>>,
  <<"Season # Part #", 5>>,
  <<"S# Part #", 5>>,
  <<"Season # Vol #", 5>>,
  <<"Season # (####)", 5>>,
  <<"S#xE#", 5>>,
  <<"S#xE#-#", 5>>,
  <<"Season Roman", 3>>,
  <<"S Roman", 3>>,
  <<"Stagione #", 12>>,
  <<"Stagioni #-#", 12>>,
  <<"Temporada #", 12>>,
  <<"Temporadas #-#", 12>>,
  <<"Saison #", 12>>
>>

\* d.get(key, default) for a dict kept as <<key, value>> pairs
get(d, key, default) ==
  IF \E k \in 1..Len(d) : d[k][1] = key
  THEN d[CHOOSE k \in 1..Len(d) : d[k][1] = key][2]
  ELSE default

\* match.start() and match.end(), counted from 0 as Python does
start(m) == m.start - 1
end(m) == m.end - 1

\* s.upper()
UpperChar(c) == IF c \in LOWER THEN CHOOSE u \in UPPER : UpToLow[u] = c ELSE c
upper(s) == [i \in 1..Len(s) |-> UpperChar(s[i])]

roman_map(c) ==
  CASE c = "I" -> 1 [] c = "V" -> 5 [] c = "X" -> 10 [] c = "L" -> 50
    [] c = "C" -> 100 [] c = "D" -> 500 [] c = "M" -> 1000 [] OTHER -> 0

\* the loop of _roman_to_int over the characters from position i down to 1
RECURSIVE RomanFrom(_, _, _, _)
RomanFrom(s, i, result, prev_value) ==
  IF i < 1 THEN result
  ELSE LET value == roman_map(s[i])
       IN RomanFrom(s, i - 1,
                    IF value < prev_value THEN result - value ELSE result + value, value)

_roman_to_int(s) == RomanFrom(upper(s), Len(s), 0, 0)

\* the numbers parse_season takes for years, resolutions, sizes and codecs
exclude_numbers(normalized_title) ==
  \* years, resolutions
  ToSet(findall1(Cat(<<WordB, Grp(1, Alt(<<LitCS(<<"1","9">>), LitCS(<<"2","0">>)>>)), Rep(In(DIGIT), 2, 2), WordB>>), normalized_title))
    \cup ToSet(findall1(Cat(<<WordB, Grp(1, Alt(<<Lit(<<"3","6","0">>), Lit(<<"4","8","0">>), Lit(<<"7","2","0">>), Lit(<<"1","0","8","0">>), Lit(<<"1","4","4","0">>), Lit(<<"2","1","6","0">>), Lit(<<"4","K">>)>>)), Rep(Lit(<<"p">>), 0, 1), WordB>>), normalized_title))
    \* the number in each file size
    \cup {group(size, search(Grp(1, Cat(<<Rep(In(DIGIT), 1, -1), Rep(LitCS(<<".">>), 0, 1), Rep(In(DIGIT), 0, -1)>>)), size), 1) :
            size \in ToSet(findall0(Cat(<<WordB, Rep(In(DIGIT), 1, -1), Rep(Lit(<<".">>), 0, 1), Rep(In(DIGIT), 0, -1), In({"G","K","M","g","k","m"}), Lit(<<"B">>), WordB>>), normalized_title))}
    \* the first number in each video or audio codec that has one
    \cup {group(codec[2], codec[1], 1) :
            codec \in {c \in {<<search(Grp(1, Rep(In(DIGIT), 1, -1)), name), name>> :
                               name \in ToSet(findall1(Cat(<<WordB, Grp(1, Alt(<<Lit(<<"H","E","V","C">>), Lit(<<"A","V","C">>), Lit(<<"A","V","1">>), Lit(<<"X","v","i","D">>), Lit(<<"D","i","v","X">>), Lit(<<"V","P","9">>), Lit(<<"h","2","6","4">>), Lit(<<"h","2","6","5">>)>>)), WordB>>), normalized_title))
                                        \cup ToSet(findall1(Cat(<<WordB, Grp(1, Alt(<<Lit(<<"A","A","C">>), Lit(<<"A","C","3">>), Lit(<<"D","T","S">>), Lit(<<"D","D","P">>), Lit(<<"E","A","C","3">>), Lit(<<"T","r","u","e","H","D">>), Lit(<<"A","t","m","o","s">>), Lit(<<"M","P","3">>), Lit(<<"F","L","A","C">>), Lit(<<"O","p","u","s">>), Lit(<<"P","C","M">>), Lit(<<"V","o","r","b","i","s">>)>>)), WordB>>), normalized_title))} :
                         c[1] # NoMatch}}

complex_names == {"S+S+S list", "Season list", "S list"}
general_names == {"Complete Season", "Complete Seasons", "Full Season", "Season Pack",
                  "All Seasons", "All Season"}

\* first pass of parse_season: the spans of the complex patterns' matches
complex_pattern_ranges(patterns, normalized_title) ==
  UNION {{<<start(m), end(m)>> : m \in ToSet(finditer(e.re, normalized_title))} :
           e \in {p \in ToSet(patterns) : p.name \in complex_names}}

\* f"S{min:02d}-S{max:02d}" or f"S{min:02d}"
RangeKey(lo, hi) == <<"S">> \o fmt02d(lo) \o <<"-","S">> \o fmt02d(hi)
SingleKey(n) == <<"S">> \o fmt02d(n)

\* [int(num) for num in numbers if str(num) not in exclude]
Kept(numbers, exclude) == {int(numbers[k]) : k \in {j \in 1..Len(numbers) : numbers[j] \notin exclude}}
KeptCount(numbers, exclude) == Cardinality({j \in 1..Len(numbers) : numbers[j] \notin exclude})

\* The key the second pass of parse_season files a match under, None when
\* the match adds nothing.
SeasonKey(e, s, m, exclude) ==
  IF e.name \in general_names THEN e.label
  ELSE IF e.name \in {"Season list", "S list"} THEN
    With(Kept(findall0(Rep(In(DIGIT), 1, -1), group(s, m, 1)), exclude), LAMBDA season_numbers :
      IF season_numbers = {} THEN None
      ELSE IF ~ (1 <= min(season_numbers) /\ min(season_numbers) <= 50
                 /\ 1 <= max(season_numbers) /\ max(season_numbers) <= 50) THEN None
      ELSE IF min(season_numbers) # max(season_numbers)
      THEN RangeKey(min(season_numbers), max(season_numbers))
      ELSE SingleKey(min(season_numbers)))
  ELSE IF e.name = "S+S+S list" THEN
    With(findall1(Cat(<<LitCS(<<"s">>), Rep(LitCS(<<"e","a","s","o","n">>), 0, 1), Rep(In(SPACE), 0, -1), Grp(1, Rep(In(DIGIT), 1, -1))>>), lower(group(s, m, 1))), LAMBDA found :
      With(Kept(found, exclude), LAMBDA season_numbers :
        IF season_numbers = {} THEN None
        ELSE IF ~ (1 <= min(season_numbers) /\ min(season_numbers) <= 50
                   /\ 1 <= max(season_numbers) /\ max(season_numbers) <= 50) THEN None
        ELSE IF KeptCount(found, exclude) > 1 /\ min(season_numbers) # max(season_numbers)
        THEN RangeKey(min(season_numbers), max(season_numbers))
        ELSE SingleKey(min(season_numbers))))
  ELSE IF e.name \in {"Season # to #", "S# to #"} THEN
    With(<<int(group(s, m, 1)), int(group(s, m, 2))>>, LAMBDA n :
      IF str(n[1]) \in exclude \/ str(n[2]) \in exclude THEN None
      ELSE IF ~ (1 <= n[1] /\ n[1] <= 50 /\ 1 <= n[2] /\ n[2] <= 50) THEN None
      ELSE IF n[1] # n[2] THEN RangeKey(min({n[1], n[2]}), max({n[1], n[2]}))
      ELSE None)
  ELSE IF e.name \in {"Season Roman", "S Roman"} THEN
    With(_roman_to_int(group(s, m, 1)), LAMBDA season_num :
      IF 1 <= season_num /\ season_num <= 50 THEN SingleKey(season_num) ELSE None)
  ELSE IF e.n = 1 THEN
    IF group(s, m, 1) \in exclude THEN None
    ELSE <<"S">> \o zfill(group(s, m, 1), 2)
  ELSE IF e.n = 2 THEN
    With(<<group(s, m, 1), group(s, m, 2)>>, LAMBDA n :
      IF n[1] \in exclude \/ n[2] \in exclude THEN None
      ELSE IF ~ (int(n[1]) <= 50 /\ int(n[2]) <= 50) THEN None
      ELSE IF n[1] # n[2] THEN <<"S">> \o zfill(n[1], 2) \o <<"-","S">> \o zfill(n[2], 2)
      ELSE <<"S">> \o zfill(n[1], 2))
  ELSE None

\* a map whose entry gives way to a candidate of the same priority, which the
\* candidate map must differ from
UpsertOnEqual(potential_matches, match_key, text, priority, match_start) ==
  With([key |-> match_key, text |-> text, priority |-> priority, start |-> match_start],
       LAMBDA entry :
         With({k \in 1..Len(potential_matches) : potential_matches[k].key = match_key},
              LAMBDA at :
                IF at = {} THEN Append(potential_matches, entry)
                ELSE IF priority >= potential_matches[min(at)].priority
                THEN [potential_matches EXCEPT ![min(at)] = entry]
                ELSE potential_matches))

\* potential_matches[match_key] = (match.group(0), priority, match_start) when
\* the key is new or the priority higher; the dict keeps insertion order
Upsert(potential_matches, match_key, text, priority, match_start) ==
  With([key |-> match_key, text |-> text, priority |-> priority, start |-> match_start],
       LAMBDA entry :
         With({k \in 1..Len(potential_matches) : potential_matches[k].key = match_key},
              LAMBDA at :
                IF at = {} THEN Append(potential_matches, entry)
                ELSE IF priority > potential_matches[min(at)].priority
                THEN [potential_matches EXCEPT ![min(at)] = entry]
                ELSE potential_matches))

\* second pass of parse_season, inner loop: the matches ms[j..] of pattern e
RECURSIVE SeasonMatchesFrom(_, _, _, _, _)
SeasonMatchesFrom(potential_matches, e, ms, j, ctx) ==
  IF j > Len(ms) THEN potential_matches
  ELSE With(SeasonKey(e, ctx.title, ms[j], ctx.exclude), LAMBDA match_key :
         SeasonMatchesFrom(
           IF \/ /\ e.name \notin complex_names
                 /\ \E r \in ctx.complex : r[1] <= start(ms[j]) /\ start(ms[j]) < r[2]
              \/ match_key = None
           THEN potential_matches
           ELSE Upsert(potential_matches, match_key, group0(ctx.title, ms[j]),
                       get(season_priorities, e.name, 1), start(ms[j])),
           e, ms, j + 1, ctx))

\* second pass of parse_season, outer loop: the patterns from index i on
RECURSIVE SeasonPatternsFrom(_, _, _)
SeasonPatternsFrom(potential_matches, i, ctx) ==
  With({j \in i..Len(ctx.patterns) : search(ctx.patterns[j].re, ctx.title) # NoMatch},
       LAMBDA hits :
         IF hits = {} THEN potential_matches
         ELSE With(min(hits), LAMBDA j :
                SeasonPatternsFrom(
                  SeasonMatchesFrom(potential_matches, ctx.patterns[j],
                                    finditer(ctx.patterns[j].re, ctx.title), 1, ctx),
                  j + 1, ctx)))

\* sorted(items, key=(priority, position), reverse=True): a stable sort, so
\* entries with equal keys stay in insertion order
Before(a, b) == a.priority > b.priority \/ (a.priority = b.priority /\ a.start > b.start)
SortedMatches(pm) ==
  LET rank(k) == Cardinality({j \in 1..Len(pm) :
                                Before(pm[j], pm[k]) \/ (~ Before(pm[k], pm[j]) /\ j < k)})
  IN [r \in 1..Len(pm) |-> pm[CHOOSE k \in 1..Len(pm) : rank(k) = r - 1]]

\* the two passes of parse_season: potential_matches after the loops, for
\* the exclusion set exclude
SeasonCandidates(patterns, normalized_title, exclude) ==
  SeasonPatternsFrom(<<>>, 1,
    [title |-> normalized_title,
     patterns |-> patterns,
     exclude |-> exclude,
     complex |-> complex_pattern_ranges(patterns, normalized_title)])

\* the end of parse_season: the keys of potential_matches, sorted and joined
SeasonResult(potential_matches) ==
  With(SortedMatches(potential_matches), LAMBDA sorted_matches :
    IF sorted_matches = <<>> THEN None
    ELSE join(<<","," ">>, [k \in 1..Len(sorted_matches) |-> sorted_matches[k].key]))

\* the season extractor on an already normalised title
SeasonOf(normalized_title) ==
  SeasonResult(SeasonCandidates(season_patterns, normalized_title,
                                exclude_numbers(normalized_title)))

parse_season(title) == SeasonOf(_normalize_title(title))

(***************************************************************************)
(* The auxiliary extractors.  Each works on the normalised title; the      *)
(* operator X_of is the body of parse_X after its call of _normalize_title.*)
(***************************************************************************)
\* the elements of a finite set of integers, ascending
Ascending(S) ==
  [r \in 1..Cardinality(S) |-> CHOOSE x \in S : Cardinality({y \in S : y < x}) = r - 1]

\* the first registry entry e whose pattern finds something, with its match m
FirstHit(registry, s) ==
  With({k \in 1..Len(registry) : search(registry[k].re, s) # NoMatch}, LAMBDA hits :
    IF hits = {} THEN NoMatch
    ELSE With(registry[min(hits)], LAMBDA e : [e |-> e, m |-> search(e.re, s)]))

movie_indicators == <<
  Cat(<<WordB, Lit(<<"m","o","v","i","e">>), WordB>>),
  Cat(<<WordB, Lit(<<"f","i","l","m">>), WordB>>),
  Cat(<<WordB, Lit(<<"f","e","a","t","u","r","e">>), WordB>>),
  Cat(<<WordB, Lit(<<"c","o","l","l","e","c","t","i","o","n">>), Rep(Lit(<<"s">>), 0, 1), WordB>>),
  Cat(<<WordB, Lit(<<"c","o","m","p","l","e","t","e"," ","c","o","l","l","e","c","t","i","o","n">>), Rep(Lit(<<"s">>), 0, 1), WordB>>),
  Cat(<<WordB, Rep(In(DIGIT), 4, 4), Lit(<<" ","c","o","l","l","e","c","t","i","o","n">>), Rep(Lit(<<"s">>), 0, 1), WordB>>),
  Cat(<<WordB, Rep(In(DIGIT), 1, -1), Lit(<<" ","m","o","v","i","e">>), Rep(Lit(<<"s">>), 0, 1), WordB>>),
  Cat(<<WordB, Lit(<<"a","l","l"," ","m","o","v","i","e">>), Rep(Lit(<<"s">>), 0, 1), WordB>>),
  Cat(<<WordB, Lit(<<"f","u","l","l"," ","m","o","v","i","e">>), Rep(Lit(<<"s">>), 0, 1), WordB>>)
>>

series_indicators == <<
  Cat(<<WordB, Lit(<<"s","e","a","s","o","n">>), WordB>>),
  Cat(<<WordB, Lit(<<"e","p","i","s","o","d","e">>), WordB>>),
  Cat(<<WordB, Lit(<<"e","p">>), WordB>>),
  Cat(<<WordB, Lit(<<"s">>), Rep(In(DIGIT), 1, -1), WordB>>),
  Cat(<<WordB, Lit(<<"e">>), Rep(In(DIGIT), 1, -1), WordB>>),
  Cat(<<WordB, Lit(<<"s","e","r","i","e","s">>), WordB>>),
  Cat(<<WordB, Lit(<<"s","h","o","w">>), WordB>>),
  Cat(<<WordB, Lit(<<"t","v">>), WordB>>),
  Cat(<<WordB, Lit(<<"c","o","m","p","l","e","t","e"," ","s","e","r","i","e","s">>), WordB>>),
  Cat(<<WordB, Lit(<<"c","o","m","p","l","e","t","e"," ","s","e","a","s","o","n">>), Rep(Lit(<<"s">>), 0, 1), WordB>>),
  Cat(<<WordB, Lit(<<"a","l","l"," ","e","p","i","s","o","d","e","s">>), WordB>>)
>>

_detect_content_type(title, normalized_title) ==
  IF \E k \in 1..Len(movie_indicators) : search(movie_indicators[k], normalized_title) # NoMatch
  THEN <<"m","o","v","i","e">>
  ELSE IF \E k \in 1..Len(series_indicators) :
            search(series_indicators[k], normalized_title) # NoMatch
  THEN <<"s","e","r","i","e","s">>
  ELSE <<"s","e","r","i","e","s">>

resolution_patterns == <<
  [name |-> "###p", label |-> <<"#","#","#","p">>, n |-> 1, groupindex |-> <<>>, re |->
     Cat(<<WordB, Grp(1, Rep(In(DIGIT), 3, 4)), Lit(<<"p">>), WordB>>)],
  [name |-> "###i", label |-> <<"#","#","#","i">>, n |-> 1, groupindex |-> <<>>, re |->
     Cat(<<WordB, Grp(1, Rep(In(DIGIT), 3, 4)), Lit(<<"i">>), WordB>>)],
  [name |-> "####x###", label |-> <<"#","#","#","#","x","#","#","#">>, n |-> 2, groupindex |-> <<>>, re |->
     Cat(<<WordB, Grp(1, Rep(In(DIGIT), 3, 4)), Lit(<<"x">>), Grp(2, Rep(In(DIGIT), 3, 4)), WordB>>)],
  [name |-> "4K", label |-> <<"4","K">>, n |-> 0, groupindex |-> <<>>, re |->
     Cat(<<WordB, Lit(<<"4","K">>), WordB>>)],
  [name |-> "SD", label |-> <<"S","D">>, n |-> 0, groupindex |-> <<>>, re |->
     Cat(<<WordB, Lit(<<"S","D">>), WordB>>)],
  [name |-> "HD", label |-> <<"H","D">>, n |-> 0, groupindex |-> <<>>, re |->
     Cat(<<WordB, Lit(<<"H","D">>), WordB>>)],
  [name |-> "FHD", label |-> <<"F","H","D">>, n |-> 0, groupindex |-> <<>>, re |->
     Cat(<<WordB, Lit(<<"F","H","D">>), WordB>>)],
  [name |-> "UHD", label |-> <<"U","H","D">>, n |-> 0, groupindex |-> <<>>, re |->
     Cat(<<WordB, Lit(<<"U","H","D">>), WordB>>)],
  [name |-> "QHD", label |-> <<"Q","H","D">>, n |-> 0, groupindex |-> <<>>, re |->
     Cat(<<WordB, Lit(<<"Q","H","D">>), WordB>>)],
  [name |-> "WQHD", label |-> <<"W","Q","H","D">>, n |-> 0, groupindex |-> <<>>, re |->
     Cat(<<WordB, Lit(<<"W","Q","H","D">>), WordB>>)],
  [name |-> "RawHD", label |-> <<"R","a","w","H","D">>, n |-> 0, groupindex |-> <<>>, re |->
     Cat(<<WordB, Lit(<<"R","a","w">>), Rep(In({" ","-",".","_"}), 0, 1), Lit(<<"H","D">>), WordB>>)]
>>

resolution_of(normalized_title) ==
  With(FirstHit(resolution_patterns, normalized_title), LAMBDA hit :
    IF hit = NoMatch THEN None
    ELSE IF hit.e.name = "###p" THEN group(normalized_title, hit.m, 1) \o <<"p">>
    ELSE IF hit.e.name = "###i" THEN group(normalized_title, hit.m, 1) \o <<"i">>
    ELSE IF hit.e.name = "####x###"
    THEN group(normalized_title, hit.m, 1) \o <<"x">> \o group(normalized_title, hit.m, 2)
    ELSE hit.e.label)

video_codec_patterns == <<
  [name |-> "x###", label |-> <<"x","#","#","#">>, n |-> 1, groupindex |-> <<>>, re |->
     Cat(<<WordB, Lit(<<"x">>), Grp(1, Rep(In(DIGIT), 1, -1)), WordB>>)],
  [name |-> "H###", label |-> <<"H","#","#","#">>, n |-> 1, groupindex |-> <<>>, re |->
     Cat(<<WordB, Lit(<<"H">>), Grp(1, Rep(In(DIGIT), 1, -1)), WordB>>)],
  [name |-> "H.###", label |-> <<"H",".","#","#","#">>, n |-> 1, groupindex |-> <<>>, re |->
     Cat(<<WordB, Lit(<<"H",".">>), Grp(1, Rep(In(DIGIT), 1, -1)), WordB>>)],
  [name |-> "HEVC", label |-> <<"H","E","V","C">>, n |-> 0, groupindex |-> <<>>, re |->
     Cat(<<WordB, Lit(<<"H","E","V","C">>), WordB>>)],
  [name |-> "AVC", label |-> <<"A","V","C">>, n |-> 0, groupindex |-> <<>>, re |->
     Cat(<<WordB, Lit(<<"A","V","C">>), WordB>>)],
  [name |-> "AV1", label |-> <<"A","V","1">>, n |-> 0, groupindex |-> <<>>, re |->
     Cat(<<WordB, Lit(<<"A","V","1">>), WordB>>)],
  [name |-> "XviD", label |-> <<"X","v","i","D">>, n |-> 0, groupindex |-> <<>>, re |->
     Cat(<<WordB, Lit(<<"X","v","i","D">>), WordB>>)],
  [name |-> "DivX", label |-> <<"D","i","v","X">>, n |-> 0, groupindex |-> <<>>, re |->
     Cat(<<WordB, Lit(<<"D","i","v","X">>), WordB>>)],
  [name |-> "VP9", label |-> <<"V","P","9">>, n |-> 0, groupindex |-> <<>>, re |->
     Cat(<<WordB, Lit(<<"V","P","9">>), WordB>>)],
  [name |-> "h264", label |-> <<"h","2","6","4">>, n |-> 0, groupindex |-> <<>>, re |->
     Cat(<<WordB, Lit(<<"h","2","6","4">>), WordB>>)],
  [name |-> "h265", label |-> <<"h","2","6","5">>, n |-> 0, groupindex |-> <<>>, re |->
     Cat(<<WordB, Lit(<<"h","2","6","5">>), WordB>>)],
  [name |-> "MPEG2", label |-> <<"M","P","E","G","2">>, n |-> 0, groupindex |-> <<>>, re |->
     Cat(<<WordB, Lit(<<"M","P","E","G">>), Rep(In({" ","-",".","_"}), 0, 1), Lit(<<"2">>), WordB>>)],
  [name |-> "VC-1", label |-> <<"V","C","-","1">>, n |-> 0, groupindex |-> <<>>, re |->
     Cat(<<WordB, Lit(<<"V","C">>), Rep(In({" ","-",".","_"}), 0, 1), Lit(<<"1">>), WordB>>)]
>>

video_codec_of(normalized_title) ==
  With(FirstHit(video_codec_patterns, normalized_title), LAMBDA hit :
    IF hit = NoMatch THEN None
    ELSE IF hit.e.name \in {"x###", "H###", "H.###"}
    THEN SubSeq(hit.e.label, 1, 1) \o group(normalized_title, hit.m, 1)
    ELSE hit.e.label)

audio_codec_patterns == <<
  [name |-> "AAC", label |-> <<"A","A","C">>, n |-> 0, groupindex |-> <<>>, re |->
     Cat(<<WordB, Lit(<<"A","A","C">>), WordB>>)],
  [name |-> "AAC#.#", label |-> <<"A","A","C","#",".","#">>, n |-> 1, groupindex |-> <<>>, re |->
     Cat(<<WordB, Lit(<<"A","A","C">>), Grp(1, Cat(<<Rep(In(DIGIT), 1, -1), Rep(Lit(<<".">>), 0, 1), Rep(In(DIGIT), 0, -1)>>)), WordB>>)],
  [name |-> "DDP#.#", label |-> <<"D","D","P","#",".","#">>, n |-> 1, groupindex |-> <<>>, re |->
     Cat(<<WordB, Lit(<<"D","D">>), Rep(Lit(<<"P">>), 0, 1), Grp(1, Cat(<<Rep(In(DIGIT), 1, -1), Rep(Lit(<<".">>), 0, 1), Rep(In(DIGIT), 0, -1)>>)), WordB>>)],
  [name |-> "AC#", label |-> <<"A","C","#">>, n |-> 1, groupindex |-> <<>>, re |->
     Cat(<<WordB, Lit(<<"A","C">>), Grp(1, Rep(In(DIGIT), 1, -1)), WordB>>)],
  [name |-> "AC#.#", label |-> <<"A","C","#",".","#">>, n |-> 1, groupindex |-> <<>>, re |->
     Cat(<<WordB, Lit(<<"A","C">>), Grp(1, Cat(<<Rep(In(DIGIT), 1, -1), Rep(Lit(<<".">>), 0, 1), Rep(In(DIGIT), 0, -1)>>)), WordB>>)],
  [name |-> "DD#.#", label |-> <<"D","D","#",".","#">>, n |-> 1, groupindex |-> <<>>, re |->
     Cat(<<WordB, Lit(<<"D","D">>), Grp(1, Cat(<<Rep(In(DIGIT), 1, -1), Rep(Lit(<<".">>), 0, 1), Rep(In(DIGIT), 0, -1)>>)), WordB>>)],
  [name |-> "DD+", label |-> <<"D","D","+">>, n |-> 0, groupindex |-> <<>>, re |->
     Cat(<<WordB, Lit(<<"D","D","+">>), WordB>>)],
  [name |-> "EAC#", label |-> <<"E","A","C","#">>, n |-> 1, groupindex |-> <<>>, re |->
     Cat(<<WordB, Lit(<<"E","A","C">>), Grp(1, Rep(In(DIGIT), 1, -1)), WordB>>)],
  [name |-> "DTS", label |-> <<"D","T","S">>, n |-> 0, groupindex |-> <<>>, re |->
     Cat(<<WordB, Lit(<<"D","T","S">>), WordB>>)],
  [name |-> "DLMux", label |-> <<"D","L","M","u","x">>, n |-> 0, groupindex |-> <<>>, re |->
     Cat(<<WordB, Lit(<<"D","L","M","u","x">>), WordB>>)],
  [name |-> "DTS-HD", label |-> <<"D","T","S","-","H","D">>, n |-> 0, groupindex |-> <<>>, re |->
     Cat(<<WordB, Lit(<<"D","T","S">>), In({"-","."}), Lit(<<"H","D">>), WordB>>)],
  [name |-> "DTS-X", label |-> <<"D","T","S","-","X">>, n |-> 0, groupindex |-> <<>>, re |->
     Cat(<<WordB, Lit(<<"D","T","S">>), In({"-","."}), Lit(<<"X">>), WordB>>)],
  [name |-> "TrueHD", label |-> <<"T","r","u","e","H","D">>, n |-> 0, groupindex |-> <<>>, re |->
     Cat(<<WordB, Lit(<<"T","r","u","e","H","D">>), WordB>>)],
  [name |-> "Atmos", label |-> <<"A","t","m","o","s">>, n |-> 0, groupindex |-> <<>>, re |->
     Cat(<<WordB, Lit(<<"A","t","m","o","s">>), WordB>>)],
  [name |-> "MP#", label |-> <<"M","P","#">>, n |-> 1, groupindex |-> <<>>, re |->
     Cat(<<WordB, Lit(<<"M","P">>), Grp(1, Rep(In(DIGIT), 1, -1)), WordB>>)],
  [name |-> "FLAC", label |-> <<"F","L","A","C">>, n |-> 0, groupindex |-> <<>>, re |->
     Cat(<<WordB, Lit(<<"F","L","A","C">>), WordB>>)],
  [name |-> "Opus", label |-> <<"O","p","u","s">>, n |-> 0, groupindex |-> <<>>, re |->
     Cat(<<WordB, Lit(<<"O","p","u","s">>), WordB>>)],
  [name |-> "PCM", label |-> <<"P","C","M">>, n |-> 0, groupindex |-> <<>>, re |->
     Cat(<<WordB, Lit(<<"P","C","M">>), WordB>>)],
  [name |-> "5.1", label |-> <<"5",".","1">>, n |-> 0, groupindex |-> <<>>, re |->
     Cat(<<WordB, Lit(<<"5">>), NotIn({"\n"}), Lit(<<"1">>), WordB>>)],
  [name |-> "7.1", label |-> <<"7",".","1">>, n |-> 0, groupindex |-> <<>>, re |->
     Cat(<<WordB, Lit(<<"7">>), NotIn({"\n"}), Lit(<<"1">>), WordB>>)],
  [name |-> "2.0", label |-> <<"2",".","0">>, n |-> 0, groupindex |-> <<>>, re |->
     Cat(<<WordB, Lit(<<"2">>), NotIn({"\n"}), Lit(<<"0">>), WordB>>)],
  [name |-> "Vorbis", label |-> <<"V","o","r","b","i","s">>, n |-> 0, groupindex |-> <<>>, re |->
     Cat(<<WordB, Lit(<<"V","o","r","b","i","s">>), WordB>>)]
>>

audio_codec_of(normalized_title) ==
  With(FirstHit(audio_codec_patterns, normalized_title), LAMBDA hit :
    IF hit = NoMatch THEN None
    ELSE IF hit.e.name \in {"AAC#.#", "DDP#.#", "AC#", "AC#.#", "DD#.#", "EAC#", "MP#"}
    THEN SubSeq(hit.e.label, 1, min({3, Len(hit.e.label)})) \o group(normalized_title, hit.m, 1)
    ELSE hit.e.label)

filesize_patterns == <<
  [name |-> "###MB", label |-> <<"#","#","#","M","B">>, n |-> 1, groupindex |-> <<>>, re |->
     Cat(<<WordB, Grp(1, Rep(In(DIGIT), 1, -1)), Lit(<<"M","B">>), WordB>>)],
  [name |-> "###GB", label |-> <<"#","#","#","G","B">>, n |-> 1, groupindex |-> <<>>, re |->
     Cat(<<WordB, Grp(1, Rep(In(DIGIT), 1, -1)), Lit(<<"G","B">>), WordB>>)],
  [name |-> "###.#GB", label |-> <<"#","#","#",".","#","G","B">>, n |-> 1, groupindex |-> <<>>, re |->
     Cat(<<WordB, Grp(1, Cat(<<Rep(In(DIGIT), 1, -1), Lit(<<".">>), Rep(In(DIGIT), 1, -1)>>)), Lit(<<"G","B">>), WordB>>)],
  [name |-> "###.#MB", label |-> <<"#","#","#",".","#","M","B">>, n |-> 1, groupindex |-> <<>>, re |->
     Cat(<<WordB, Grp(1, Cat(<<Rep(In(DIGIT), 1, -1), Lit(<<".">>), Rep(In(DIGIT), 1, -1)>>)), Lit(<<"M","B">>), WordB>>)],
  [name |-> "###KB", label |-> <<"#","#","#","K","B">>, n |-> 1, groupindex |-> <<>>, re |->
     Cat(<<WordB, Grp(1, Rep(In(DIGIT), 1, -1)), Lit(<<"K","B">>), WordB>>)],
  [name |-> "###TB", label |-> <<"#","#","#","T","B">>, n |-> 1, groupindex |-> <<>>, re |->
     Cat(<<WordB, Grp(1, Rep(In(DIGIT), 1, -1)), Lit(<<"T","B">>), WordB>>)],
  [name |-> "###.#TB", label |-> <<"#","#","#",".","#","T","B">>, n |-> 1, groupindex |-> <<>>, re |->
     Cat(<<WordB, Grp(1, Cat(<<Rep(In(DIGIT), 1, -1), Lit(<<".">>), Rep(In(DIGIT), 1, -1)>>)), Lit(<<"T","B">>), WordB>>)]
>>

filesize_of(normalized_title) ==
  With(FirstHit(filesize_patterns, normalized_title), LAMBDA hit :
    IF hit = NoMatch THEN None
    ELSE group(normalized_title, hit.m, 1) \o
         (IF hit.e.name \in {"###MB", "###.#MB"} THEN <<"M","B">>
          ELSE IF hit.e.name \in {"###GB", "###.#GB"} THEN <<"G","B">>
          ELSE IF hit.e.name = "###KB" THEN <<"K","B">>
          ELSE <<"T","B">>))

filetype_patterns == <<
  [name |-> ".mkv", label |-> <<".","m","k","v">>, n |-> 0, groupindex |-> <<>>, re |->
     Cat(<<Lit(<<".","m","k","v">>), WordB>>)],
  [name |-> ".mp4", label |-> <<".","m","p","4">>, n |-> 0, groupindex |-> <<>>, re |->
     Cat(<<Lit(<<".","m","p","4">>), WordB>>)],
  [name |-> ".avi", label |-> <<".","a","v","i">>, n |-> 0, groupindex |-> <<>>, re |->
     Cat(<<Lit(<<".","a","v","i">>), WordB>>)],
  [name |-> ".m4v", label |-> <<".","m","4","v">>, n |-> 0, groupindex |-> <<>>, re |->
     Cat(<<Lit(<<".","m","4","v">>), WordB>>)],
  [name |-> ".mpg", label |-> <<".","m","p","g">>, n |-> 0, groupindex |-> <<>>, re |->
     Cat(<<Lit(<<".","m","p","g">>), WordB>>)],
  [name |-> ".mpeg", label |-> <<".","m","p","e","g">>, n |-> 0, groupindex |-> <<>>, re |->
     Cat(<<Lit(<<".","m","p","e","g">>), WordB>>)],
  [name |-> ".ass", label |-> <<".","a","s","s">>, n |-> 0, groupindex |-> <<>>, re |->
     Cat(<<Lit(<<".","a","s","s">>), WordB>>)],
  [name |-> ".ssa", label |-> <<".","s","s","a">>, n |-> 0, groupindex |-> <<>>, re |->
     Cat(<<Lit(<<".","s","s","a">>), WordB>>)],
  [name |-> ".srt", label |-> <<".","s","r","t">>, n |-> 0, groupindex |-> <<>>, re |->
     Cat(<<Lit(<<".","s","r","t">>), WordB>>)],
  [name |-> ".sub", label |-> <<".","s","u","b">>, n |-> 0, groupindex |-> <<>>, re |->
     Cat(<<Lit(<<".","s","u","b">>), WordB>>)],
  [name |-> ".idx", label |-> <<".","i","d","x">>, n |-> 0, groupindex |-> <<>>, re |->
     Cat(<<Lit(<<".","i","d","x">>), WordB>>)],
  [name |-> ".iso", label |-> <<".","i","s","o">>, n |-> 0, groupindex |-> <<>>, re |->
     Cat(<<Lit(<<".","i","s","o">>), WordB>>)],
  [name |-> ".ts", label |-> <<".","t","s">>, n |-> 0, groupindex |-> <<>>, re |->
     Cat(<<Lit(<<".","t","s">>), WordB>>)],
  [name |-> ".m2ts", label |-> <<".","m","2","t","s">>, n |-> 0, groupindex |-> <<>>, re |->
     Cat(<<Lit(<<".","m","2","t","s">>), WordB>>)],
  [name |-> ".vob", label |-> <<".","v","o","b">>, n |-> 0, groupindex |-> <<>>, re |->
     Cat(<<Lit(<<".","v","o","b">>), WordB>>)],
  [name |-> ".rar", label |-> <<".","r","a","r">>, n |-> 0, groupindex |-> <<>>, re |->
     Cat(<<Lit(<<".","r","a","r">>), WordB>>)],
  [name |-> ".zip", label |-> <<".","z","i","p">>, n |-> 0, groupindex |-> <<>>, re |->
     Cat(<<Lit(<<".","z","i","p">>), WordB>>)],
  [name |-> ".7z", label |-> <<".","7","z">>, n |-> 0, groupindex |-> <<>>, re |->
     Cat(<<Lit(<<".","7","z">>), WordB>>)]
>>

filetype_of(normalized_title) ==
  With(FirstHit(filetype_patterns, normalized_title), LAMBDA hit :
    IF hit = NoMatch THEN None ELSE hit.e.label)

\* ord(c) for a printable ASCII character, and Python's order on str
ASCII == <<" ", "!", "\"", "#", "$", "%", "&", "'", "(", ")", "*", "+", ",", "-", ".", "/", "0", "1", "2", "3", "4", "5", "6", "7", "8", "9", ":", ";", "<", "=", ">", "?", "@", "A", "B", "C", "D", "E", "F", "G", "H", "I", "J", "K", "L", "M", "N", "O", "P", "Q", "R", "S", "T", "U", "V", "W", "X", "Y", "Z", "[", "\\", "]", "^", "_", "U+0060", "a", "b", "c", "d", "e", "f", "g", "h", "i", "j", "k", "l", "m", "n", "o", "p", "q", "r", "s", "t", "u", "v", "w", "x", "y", "z", "{", "|", "}", "~">>
ord(c) == 31 + CHOOSE k \in 1..Len(ASCII) : ASCII[k] = c
StrLess(a, b) ==
  \E k \in 1..(Len(a) + 1) :
    /\ k <= Len(b)
    /\ \A j \in 1..(k - 1) : a[j] = b[j]
    /\ (k > Len(a) \/ ord(a[k]) < ord(b[k]))

\* sorted(S) for a finite set of strings
sorted(S) ==
  [r \in 1..Cardinality(S) |-> CHOOSE x \in S : Cardinality({y \in S : StrLess(y, x)}) = r - 1]

language_patterns == <<
  [name |-> "ISO639-1", label |-> <<"I","S","O","6","3","9","-","1">>, n |-> 0, groupindex |-> <<>>, re |->
     Cat(<<WordB, Alt(<<Lit(<<"e","n">>), Lit(<<"f","r">>), Lit(<<"e","s">>), Lit(<<"d","e">>), Lit(<<"i","t">>), Lit(<<"d","a">>), Lit(<<"n","l">>), Lit(<<"j","a">>), Lit(<<"i","s">>), Lit(<<"z","h">>), Lit(<<"r","u">>), Lit(<<"p","l">>), Lit(<<"v","i">>), Lit(<<"s","v">>), Lit(<<"n","o">>), Lit(<<"n","b">>), Lit(<<"f","i">>), Lit(<<"t","r">>), Lit(<<"p","t">>), Lit(<<"e","l">>), Lit(<<"k","o">>), Lit(<<"h","u">>), Lit(<<"h","e">>), Lit(<<"l","t">>), Lit(<<"c","s">>), Lit(<<"a","r">>), Lit(<<"h","i">>), Lit(<<"b","g">>), Lit(<<"m","l">>), Lit(<<"u","k">>), Lit(<<"s","k">>), Lit(<<"t","h">>), Lit(<<"r","o">>), Lit(<<"l","v">>), Lit(<<"f","a">>), Lit(<<"c","a">>), Lit(<<"h","r">>), Lit(<<"s","r">>), Lit(<<"b","s">>), Lit(<<"e","t">>), Lit(<<"t","a">>), Lit(<<"i","d">>), Lit(<<"m","k">>), Lit(<<"s","l">>), Lit(<<"a","z">>), Lit(<<"u","z">>), Lit(<<"m","s">>), Lit(<<"u","r">>), Lit(<<"r","m">>)>>), WordB>>)],
  [name |-> "ISO639-2", label |-> <<"I","S","O","6","3","9","-","2">>, n |-> 0, groupindex |-> <<>>, re |->
     Cat(<<WordB, Alt(<<Lit(<<"e","n","g">>), Lit(<<"f","r","a">>), Lit(<<"s","p","a">>), Lit(<<"d","e","u">>), Lit(<<"i","t","a">>), Lit(<<"d","a","n">>), Lit(<<"n","l","d">>), Lit(<<"j","p","n">>), Lit(<<"i","s","l">>), Lit(<<"z","h","o">>), Lit(<<"r","u","s">>), Lit(<<"p","o","l">>), Lit(<<"v","i","e">>), Lit(<<"s","w","e">>), Lit(<<"n","o","r">>), Lit(<<"n","o","b">>), Lit(<<"f","i","n">>), Lit(<<"t","u","r">>), Lit(<<"p","o","r">>), Lit(<<"e","l","l">>), Lit(<<"k","o","r">>), Lit(<<"h","u","n">>), Lit(<<"h","e","b">>), Lit(<<"l","i","t">>), Lit(<<"c","e","s">>), Lit(<<"a","r","a">>), Lit(<<"h","i","n">>), Lit(<<"b","u","l">>), Lit(<<"m","a","l">>), Lit(<<"u","k","r">>), Lit(<<"s","l","k">>), Lit(<<"t","h","a">>), Lit(<<"r","o","n">>), Lit(<<"l","a","v">>), Lit(<<"f","a","s">>), Lit(<<"c","a","t">>), Lit(<<"h","r","v">>), Lit(<<"s","r","p">>), Lit(<<"b","o","s">>), Lit(<<"e","s","t">>), Lit(<<"t","a","m">>), Lit(<<"t","e","l">>), Lit(<<"k","a","n">>), Lit(<<"i","n","d">>), Lit(<<"m","k","d">>), Lit(<<"s","l","v">>), Lit(<<"a","z","e">>), Lit(<<"u","z","b">>), Lit(<<"m","s","a">>), Lit(<<"u","r","d">>), Lit(<<"r","o","h">>)>>), WordB>>)],
  [name |-> "LanguageNames", label |-> <<"L","a","n","g","u","a","g","e","N","a","m","e","s">>, n |-> 0, groupindex |-> <<>>, re |->
     Cat(<<WordB, Alt(<<Lit(<<"e","n","g","l","i","s","h">>), Lit(<<"f","r","e","n","c","h">>), Lit(<<"s","p","a","n","i","s","h">>), Lit(<<"g","e","r","m","a","n">>), Lit(<<"i","t","a","l","i","a","n">>), Lit(<<"d","a","n","i","s","h">>), Lit(<<"d","u","t","c","h">>), Lit(<<"j","a","p","a","n","e","s","e">>), Lit(<<"i","c","e","l","a","n","d","i","c">>), Lit(<<"c","h","i","n","e","s","e">>), Lit(<<"r","u","s","s","i","a","n">>), Lit(<<"p","o","l","i","s","h">>), Lit(<<"v","i","e","t","n","a","m","e","s","e">>), Lit(<<"s","w","e","d","i","s","h">>), Lit(<<"n","o","r","w","e","g","i","a","n">>), Lit(<<"f","i","n","n","i","s","h">>), Lit(<<"t","u","r","k","i","s","h">>), Lit(<<"p","o","r","t","u","g","u","e","s","e">>), Lit(<<"g","r","e","e","k">>), Lit(<<"k","o","r","e","a","n">>), Lit(<<"h","u","n","g","a","r","i","a","n">>), Lit(<<"h","e","b","r","e","w">>), Lit(<<"l","i","t","h","u","a","n","i","a","n">>), Lit(<<"c","z","e","c","h">>), Lit(<<"a","r","a","b","i","c">>), Lit(<<"h","i","n","d","i">>), Lit(<<"b","u","l","g","a","r","i","a","n">>), Lit(<<"m","a","l","a","y","a","l","a","m">>), Lit(<<"u","k","r","a","i","n","i","a","n">>), Lit(<<"s","l","o","v","a","k">>), Lit(<<"t","h","a","i">>), Lit(<<"r","o","m","a","n","i","a","n">>), Lit(<<"l","a","t","v","i","a","n">>), Lit(<<"p","e","r","s","i","a","n">>), Lit(<<"c","a","t","a","l","a","n">>), Lit(<<"c","r","o","a","t","i","a","n">>), Lit(<<"s","e","r","b","i","a","n">>), Lit(<<"b","o","s","n","i","a","n">>), Lit(<<"e","s","t","o","n","i","a","n">>), Lit(<<"t","a","m","i","l">>), Lit(<<"t","e","l","u","g","u">>), Lit(<<"k","a","n","n","a","d","a">>), Lit(<<"i","n","d","o","n","e","s","i","a","n">>), Lit(<<"m","a","c","e","d","o","n","i","a","n">>), Lit(<<"s","l","o","v","e","n","i","a","n">>), Lit(<<"a","z","e","r","b","a","i","j","a","n","i">>), Lit(<<"u","z","b","e","k">>), Lit(<<"m","a","l","a","y">>), Lit(<<"u","r","d","u">>), Lit(<<"r","o","m","a","n","s","h">>)>>), WordB>>)],
  [name |-> "LanguageVariants", label |-> <<"L","a","n","g","u","a","g","e","V","a","r","i","a","n","t","s">>, n |-> 0, groupindex |-> <<>>, re |->
     Cat(<<WordB, Alt(<<Lit(<<"f","l","e","m","i","s","h">>), Lit(<<"b","r","a","z","i","l","i","a","n">>), Lit(<<"l","a","t","i","n","o">>), Cat(<<Lit(<<"p","o","r","t","u","g","u","e","s","e">>), In({" ","-",".","_"}), Lit(<<"b","r">>)>>), Cat(<<Lit(<<"s","p","a","n","i","s","h">>), In({" ","-",".","_"}), Lit(<<"l","a">>)>>), Cat(<<Lit(<<"s","p","a","n","i","s","h">>), In({" ","-",".","_"}), Lit(<<"l","a","t","i","n","o">>)>>)>>), WordB>>)],
  [name |-> "LanguageTags", label |-> <<"L","a","n","g","u","a","g","e","T","a","g","s">>, n |-> 0, groupindex |-> <<>>, re |->
     Cat(<<WordB, NotAhead(Alt(<<Lit(<<"T","G","x">>), Lit(<<"Y","T","S">>), Lit(<<"R","A","R","B","G">>)>>)), Alt(<<Lit(<<"V","O","S","T","F","R">>), Lit(<<"S","U","B">>), Lit(<<"E","S","u","b">>), Lit(<<"M","S","U","B","S">>), Lit(<<"D","U","A","L">>), Lit(<<"M","u","l","t","i">>), Lit(<<"M","U","L","T","I">>), Lit(<<"D","U","B","B","E","D">>), Lit(<<"D","U","B">>), Lit(<<"T","r","u","e","F","r","e","n","c","h">>), Lit(<<"V","F">>), Lit(<<"V","F","F">>), Lit(<<"V","F","I">>), Lit(<<"V","F","Q">>), Lit(<<"V","O","S","T">>), Lit(<<"V","O">>), Lit(<<"O","V">>), Lit(<<"O","M","U">>), Lit(<<"S","o","f","t","S","u","b","s">>), Lit(<<"H","a","r","d","S","u","b","s">>), Lit(<<"S","u","b","t","i","t","l","e","d">>)>>), WordB>>)],
  [name |-> "MultiLanguage", label |-> <<"M","u","l","t","i","L","a","n","g","u","a","g","e">>, n |-> 0, groupindex |-> <<>>, re |->
     Cat(<<WordB, Alt(<<Lit(<<"D","L">>), Lit(<<"M","L">>), Cat(<<Lit(<<"D","U","A","L">>), In({" ","-",".","_"}), Lit(<<"A","U","D","I","O">>)>>), Cat(<<Lit(<<"M","U","L","T","I">>), In({" ","-",".","_"}), Lit(<<"A","U","D","I","O">>)>>)>>), WordB>>)],
  [name |-> "AudioTracks", label |-> <<"A","u","d","i","o","T","r","a","c","k","s">>, n |-> 0, groupindex |-> <<>>, re |->
     Cat(<<WordB, Alt(<<Lit(<<"2",".","0">>), Lit(<<"5",".","1">>), Lit(<<"7",".","1">>), Cat(<<Lit(<<"D","T","S">>), Rep(In({" ","-",".","_"}), 0, 1), Lit(<<"X">>)>>), Lit(<<"A","t","m","o","s">>), Lit(<<"D","D","5",".","1">>), Lit(<<"A","C","3">>), Lit(<<"D","D","P","5",".","1">>), Lit(<<"A","A","C","5",".","1">>)>>), WordB>>)]
>>

invalid_terms == {
  <<"1","0","8","0","p">>,
  <<"2",".","0">>,
  <<"2","1","6","0","p">>,
  <<"4","k">>,
  <<"5",".","1">>,
  <<"7",".","1">>,
  <<"7","2","0","p">>,
  <<"a","a","c">>,
  <<"a","c","3">>,
  <<"a","t","m","o","s">>,
  <<"a","v","c">>,
  <<"b","l","u","-","r","a","y">>,
  <<"b","l","u","r","a","y">>,
  <<"c","u","t">>,
  <<"d","d","p">>,
  <<"d","i","r","e","c","t","o","r">>,
  <<"d","l">>,
  <<"d","t","s">>,
  <<"d","u","a","l">>,
  <<"e","x","t","e","n","d","e","d">>,
  <<"f","i","n","a","l">>,
  <<"h","d","t","v">>,
  <<"h","e","v","c">>,
  <<"l","i","m","i","t","e","d">>,
  <<"m","l">>,
  <<"m","u","l","t","i">>,
  <<"p","r","o","p","e","r">>,
  <<"r","e","m","u","x">>,
  <<"r","e","p","a","c","k">>,
  <<"t","h","e","a","t","r","i","c","a","l">>,
  <<"u","n","c","u","t">>,
  <<"u","n","r","a","t","e","d">>,
  <<"w","e","b","-","d","l">>,
  <<"w","e","b","d","l">>,
  <<"w","e","b","r","i","p">>,
  <<"x","2","6","4">>,
  <<"x","2","6","5">>
}

release_groups == {
  <<"b","e","y","o","n","d","h","d">>,
  <<"b","l","u","t","o","n","i","u","m">>,
  <<"c","h","d">>,
  <<"c","m">>,
  <<"c","t","r","l","h","d">>,
  <<"d","-","z","0","n","3">>,
  <<"d","d","r">>,
  <<"d","e","c","i","b","e","l">>,
  <<"e","b","p">>,
  <<"e","v","o">>,
  <<"f","g","t">>,
  <<"f","q","m">>,
  <<"f","r","a","m","e","s","t","o","r">>,
  <<"g","a","l","a","x","y","r","g">>,
  <<"h","d","a","r","e","a">>,
  <<"h","d","b","i","t","s">>,
  <<"h","d","c","h","i","n","a">>,
  <<"h","d","s">>,
  <<"h","d","w","i","n","g">>,
  <<"n","g","b">>,
  <<"n","t","b">>,
  <<"q","x","r">>,
  <<"r","a","r","b","g">>,
  <<"t","a","y","t","o">>,
  <<"t","b","s">>,
  <<"t","g","x">>,
  <<"t","i","g","o","l","e">>,
  <<"t","l","a">>,
  <<"t","r","o","l","l","h","d">>,
  <<"w","i","k","i">>,
  <<"y","t","s">>
}

valid_tags == {
  <<"d","u","a","l">>,
  <<"d","u","b">>,
  <<"d","u","b","b","e","d">>,
  <<"e","s","u","b">>,
  <<"h","a","r","d","s","u","b","s">>,
  <<"m","s","u","b","s">>,
  <<"m","u","l","t","i">>,
  <<"o","m","u">>,
  <<"o","v">>,
  <<"s","o","f","t","s","u","b","s">>,
  <<"s","u","b">>,
  <<"s","u","b","t","i","t","l","e","d">>,
  <<"t","r","u","e","f","r","e","n","c","h">>,
  <<"v","f">>,
  <<"v","f","f">>,
  <<"v","f","i">>,
  <<"v","f","q">>,
  <<"v","o">>,
  <<"v","o","s","t">>,
  <<"v","o","s","t","f","r">>
}

_is_valid_language(text) ==
  /\ lower(text) \notin invalid_terms
  /\ lower(text) \notin release_groups
  /\ Len(text) >= 2
  /\ ~ isdigit(text)

_is_valid_language_tag(tag) == lower(tag) \in valid_tags

language_of(normalized_title) ==
  With((IF search(Cat(<<WordB, Alt(<<Lit(<<"D","L">>), Lit(<<"M","L">>), Lit(<<"D","U","A","L">>), Lit(<<"M","U","L","T","I">>)>>), WordB>>), normalized_title) # NoMatch
        THEN {<<"M","u","l","t","i">>} ELSE {})
       \cup UNION {{language \in ToSet(findall0(e.re, normalized_title)) :
                      IF e.name = "LanguageTags" THEN _is_valid_language_tag(language)
                      ELSE _is_valid_language(language)} :
                   e \in {p \in ToSet(language_patterns) :
                            p.name \in {"ISO639-1", "ISO639-2", "LanguageNames",
                                        "LanguageVariants", "LanguageTags"}}},
       LAMBDA languages :
         IF languages = {} THEN None ELSE join(<<","," ">>, sorted(languages)))

quality_patterns == <<
  [name |-> "WEB-DL", label |-> <<"W","E","B","-","D","L">>, n |-> 0, groupindex |-> <<>>, re |->
     Cat(<<WordB, Lit(<<"W","E","B">>), Rep(In({" ","-",".","_"}), 0, 1), Lit(<<"D","L">>), WordB>>)],
  [name |-> "WEBRip", label |-> <<"W","E","B","R","i","p">>, n |-> 0, groupindex |-> <<>>, re |->
     Cat(<<WordB, Lit(<<"W","E","B">>), Rep(In({" ","-",".","_"}), 0, 1), Lit(<<"R","i","p">>), WordB>>)],
  [name |-> "HDTV", label |-> <<"H","D","T","V">>, n |-> 0, groupindex |-> <<>>, re |->
     Cat(<<WordB, Lit(<<"H","D","T","V">>), WordB>>)],
  [name |-> "BluRay", label |-> <<"B","l","u","R","a","y">>, n |-> 0, groupindex |-> <<>>, re |->
     Cat(<<WordB, Lit(<<"B","l","u">>), Rep(In({" ","-",".","_"}), 0, 1), Lit(<<"R","a","y">>), WordB>>)],
  [name |-> "BD-Rip", label |-> <<"B","D","-","R","i","p">>, n |-> 0, groupindex |-> <<>>, re |->
     Cat(<<WordB, Lit(<<"B","D">>), Rep(In({" ","-",".","_"}), 0, 1), Lit(<<"R","i","p">>), WordB>>)],
  [name |-> "DVD-Rip", label |-> <<"D","V","D","-","R","i","p">>, n |-> 0, groupindex |-> <<>>, re |->
     Cat(<<WordB, Lit(<<"D","V","D">>), Rep(In({" ","-",".","_"}), 0, 1), Lit(<<"R","i","p">>), WordB>>)],
  [name |-> "HD-Rip", label |-> <<"H","D","-","R","i","p">>, n |-> 0, groupindex |-> <<>>, re |->
     Cat(<<WordB, Lit(<<"H","D">>), In({" ","-",".","_"}), Lit(<<"R","i","p">>), WordB>>)],
  [name |-> "Telecine", label |-> <<"T","e","l","e","c","i","n","e">>, n |-> 0, groupindex |-> <<>>, re |->
     Cat(<<WordB, Lit(<<"T","e","l","e","c","i","n","e">>), WordB>>)],
  [name |-> "HDTS", label |-> <<"H","D","T","S">>, n |-> 0, groupindex |-> <<>>, re |->
     Cat(<<WordB, Lit(<<"H","D","T","S">>), WordB>>)],
  [name |-> "TS", label |-> <<"T","S">>, n |-> 0, groupindex |-> <<>>, re |->
     Cat(<<WordB, Lit(<<"T","S">>), WordB>>)],
  [name |-> "TC", label |-> <<"T","C">>, n |-> 0, groupindex |-> <<>>, re |->
     Cat(<<WordB, Lit(<<"T","C">>), WordB>>)],
  [name |-> "CAM", label |-> <<"C","A","M">>, n |-> 0, groupindex |-> <<>>, re |->
     Cat(<<WordB, Lit(<<"C","A","M">>), WordB>>)],
  [name |-> "R5", label |-> <<"R","5">>, n |-> 0, groupindex |-> <<>>, re |->
     Cat(<<WordB, Lit(<<"R","5">>), WordB>>)],
  [name |-> "SCR", label |-> <<"S","C","R">>, n |-> 0, groupindex |-> <<>>, re |->
     Cat(<<WordB, Lit(<<"S","C","R">>), WordB>>)],
  [name |-> "DVD", label |-> <<"D","V","D">>, n |-> 0, groupindex |-> <<>>, re |->
     Cat(<<WordB, Lit(<<"D","V","D">>), WordB>>)],
  [name |-> "VHS", label |-> <<"V","H","S">>, n |-> 0, groupindex |-> <<>>, re |->
     Cat(<<WordB, Lit(<<"V","H","S">>), WordB>>)],
  [name |-> "PDTV", label |-> <<"P","D","T","V">>, n |-> 0, groupindex |-> <<>>, re |->
     Cat(<<WordB, Lit(<<"P","D","T","V">>), WordB>>)],
  [name |-> "DSR", label |-> <<"D","S","R">>, n |-> 0, groupindex |-> <<>>, re |->
     Cat(<<WordB, Lit(<<"D","S","R">>), WordB>>)],
  [name |-> "TVRip", label |-> <<"T","V","R","i","p">>, n |-> 0, groupindex |-> <<>>, re |->
     Cat(<<WordB, Lit(<<"T","V">>), In({" ","-",".","_"}), Lit(<<"R","i","p">>), WordB>>)],
  [name |-> "SATRip", label |-> <<"S","A","T","R","i","p">>, n |-> 0, groupindex |-> <<>>, re |->
     Cat(<<WordB, Lit(<<"S","A","T">>), In({" ","-",".","_"}), Lit(<<"R","i","p">>), WordB>>)],
  [name |-> "DVDR", label |-> <<"D","V","D","R">>, n |-> 0, groupindex |-> <<>>, re |->
     Cat(<<WordB, Lit(<<"D","V","D","R">>), WordB>>)],
  [name |-> "MD", label |-> <<"M","D">>, n |-> 0, groupindex |-> <<>>, re |->
     Cat(<<WordB, Lit(<<"M","D">>), WordB>>)],
  [name |-> "Remux", label |-> <<"R","e","m","u","x">>, n |-> 0, groupindex |-> <<>>, re |->
     Cat(<<WordB, Lit(<<"R","e","m","u","x">>), WordB>>)],
  [name |-> "RawHD", label |-> <<"R","a","w","H","D">>, n |-> 0, groupindex |-> <<>>, re |->
     Cat(<<WordB, Lit(<<"R","a","w">>), Rep(In({" ","-",".","_"}), 0, 1), Lit(<<"H","D">>), WordB>>)],
  [name |-> "Proper", label |-> <<"P","r","o","p","e","r">>, n |-> 0, groupindex |-> <<>>, re |->
     Cat(<<WordB, Lit(<<"P","r","o","p","e","r">>), WordB>>)],
  [name |-> "Repack", label |-> <<"R","e","p","a","c","k">>, n |-> 0, groupindex |-> <<>>, re |->
     Cat(<<WordB, Lit(<<"R","e","p","a","c","k">>), WordB>>)],
  [name |-> "Real", label |-> <<"R","e","a","l">>, n |-> 0, groupindex |-> <<>>, re |->
     Cat(<<WordB, Lit(<<"R","e","a","l">>), WordB>>)],
  [name |-> "Final", label |-> <<"F","i","n","a","l">>, n |-> 0, groupindex |-> <<>>, re |->
     Cat(<<WordB, Lit(<<"F","i","n","a","l">>), WordB>>)],
  [name |-> "Director's Cut", label |-> <<"D","i","r","e","c","t","o","r","'","s"," ","C","u","t">>, n |-> 0, groupindex |-> <<>>, re |->
     Cat(<<WordB, Lit(<<"D","i","r","e","c","t","o","r">>), In({"'","U+2019"}), Lit(<<"s">>), Rep(In(SPACE), 1, -1), Lit(<<"C","u","t">>), WordB>>)],
  [name |-> "Extended", label |-> <<"E","x","t","e","n","d","e","d">>, n |-> 0, groupindex |-> <<>>, re |->
     Cat(<<WordB, Lit(<<"E","x","t","e","n","d","e","d">>), WordB>>)],
  [name |-> "Uncut", label |-> <<"U","n","c","u","t">>, n |-> 0, groupindex |-> <<>>, re |->
     Cat(<<WordB, Lit(<<"U","n","c","u","t">>), WordB>>)],
  [name |-> "Unrated", label |-> <<"U","n","r","a","t","e","d">>, n |-> 0, groupindex |-> <<>>, re |->
     Cat(<<WordB, Lit(<<"U","n","r","a","t","e","d">>), WordB>>)],
  [name |-> "Theatrical", label |-> <<"T","h","e","a","t","r","i","c","a","l">>, n |-> 0, groupindex |-> <<>>, re |->
     Cat(<<WordB, Lit(<<"T","h","e","a","t","r","i","c","a","l">>), WordB>>)],
  [name |-> "Ultimate", label |-> <<"U","l","t","i","m","a","t","e">>, n |-> 0, groupindex |-> <<>>, re |->
     Cat(<<WordB, Lit(<<"U","l","t","i","m","a","t","e">>), WordB>>)],
  [name |-> "Collector's Edition", label |-> <<"C","o","l","l","e","c","t","o","r","'","s"," ","E","d","i","t","i","o","n">>, n |-> 0, groupindex |-> <<>>, re |->
     Cat(<<WordB, Lit(<<"C","o","l","l","e","c","t","o","r">>), In({"'","U+2019"}), Lit(<<"s">>), Rep(In(SPACE), 1, -1), Lit(<<"E","d","i","t","i","o","n">>), WordB>>)],
  [name |-> "Special Edition", label |-> <<"S","p","e","c","i","a","l"," ","E","d","i","t","i","o","n">>, n |-> 0, groupindex |-> <<>>, re |->
     Cat(<<WordB, Lit(<<"S","p","e","c","i","a","l">>), Rep(In(SPACE), 1, -1), Lit(<<"E","d","i","t","i","o","n">>), WordB>>)],
  [name |-> "Limited", label |-> <<"L","i","m","i","t","e","d">>, n |-> 0, groupindex |-> <<>>, re |->
     Cat(<<WordB, Lit(<<"L","i","m","i","t","e","d">>), WordB>>)],
  [name |-> "IMAX", label |-> <<"I","M","A","X">>, n |-> 0, groupindex |-> <<>>, re |->
     Cat(<<WordB, Lit(<<"I","M","A","X">>), WordB>>)],
  [name |-> "3D", label |-> <<"3","D">>, n |-> 0, groupindex |-> <<>>, re |->
     Cat(<<WordB, Lit(<<"3","D">>), WordB>>)],
  [name |-> "4K Remaster", label |-> <<"4","K"," ","R","e","m","a","s","t","e","r">>, n |-> 0, groupindex |-> <<>>, re |->
     Cat(<<WordB, Lit(<<"4","K">>), Rep(In(SPACE), 1, -1), Lit(<<"R","e","m","a","s","t","e","r">>), WordB>>)],
  [name |-> "Remastered", label |-> <<"R","e","m","a","s","t","e","r","e","d">>, n |-> 0, groupindex |-> <<>>, re |->
     Cat(<<WordB, Lit(<<"R","e","m","a","s","t","e","r","e","d">>), WordB>>)],
  [name |-> "Restored", label |-> <<"R","e","s","t","o","r","e","d">>, n |-> 0, groupindex |-> <<>>, re |->
     Cat(<<WordB, Lit(<<"R","e","s","t","o","r","e","d">>), WordB>>)],
  [name |-> "Criterion", label |-> <<"C","r","i","t","e","r","i","o","n">>, n |-> 0, groupindex |-> <<>>, re |->
     Cat(<<WordB, Lit(<<"C","r","i","t","e","r","i","o","n">>), WordB>>)],
  [name |-> "Criterion Collection", label |-> <<"C","r","i","t","e","r","i","o","n"," ","C","o","l","l","e","c","t","i","o","n">>, n |-> 0, groupindex |-> <<>>, re |->
     Cat(<<WordB, Lit(<<"C","r","i","t","e","r","i","o","n">>), Rep(In(SPACE), 1, -1), Lit(<<"C","o","l","l","e","c","t","i","o","n">>), WordB>>)],
  [name |-> "Anniversary Edition", label |-> <<"A","n","n","i","v","e","r","s","a","r","y"," ","E","d","i","t","i","o","n">>, n |-> 0, groupindex |-> <<>>, re |->
     Cat(<<WordB, Lit(<<"A","n","n","i","v","e","r","s","a","r","y">>), Rep(In(SPACE), 1, -1), Lit(<<"E","d","i","t","i","o","n">>), WordB>>)],
  [name |-> "Version", label |-> <<"V","e","r","s","i","o","n">>, n |-> 1, groupindex |-> <<>>, re |->
     Cat(<<WordB, Lit(<<"v">>), Grp(1, Rep(In(DIGIT), 1, -1)), WordB>>)]
>>

modifier_patterns == <<
  Cat(<<WordB, Lit(<<"P","r","o","p","e","r">>), WordB>>),
  Cat(<<WordB, Lit(<<"R","e","p","a","c","k">>), WordB>>),
  Cat(<<WordB, Lit(<<"R","e","a","l">>), WordB>>),
  Cat(<<WordB, Lit(<<"F","i","n","a","l">>), WordB>>),
  Cat(<<WordB, Lit(<<"E","x","t","e","n","d","e","d">>), WordB>>),
  Cat(<<WordB, Lit(<<"U","n","c","u","t">>), WordB>>),
  Cat(<<WordB, Lit(<<"U","n","r","a","t","e","d">>), WordB>>),
  Cat(<<WordB, Lit(<<"R","e","m","a","s","t","e","r","e","d">>), WordB>>),
  Cat(<<WordB, Lit(<<"R","e","s","t","o","r","e","d">>), WordB>>),
  Cat(<<WordB, Lit(<<"D","i","r","e","c","t","o","r","'","s"," ","C","u","t">>), WordB>>),
  Cat(<<WordB, Lit(<<"S","p","e","c","i","a","l"," ","E","d","i","t","i","o","n">>), WordB>>),
  Cat(<<WordB, Lit(<<"C","o","l","l","e","c","t","o","r","'","s"," ","E","d","i","t","i","o","n">>), WordB>>),
  Cat(<<WordB, Lit(<<"A","n","n","i","v","e","r","s","a","r","y"," ","E","d","i","t","i","o","n">>), WordB>>),
  Cat(<<WordB, Lit(<<"L","i","m","i","t","e","d">>), WordB>>),
  Cat(<<WordB, Lit(<<"I","M","A","X">>), WordB>>),
  Cat(<<WordB, Lit(<<"3","D">>), WordB>>),
  Cat(<<WordB, Lit(<<"4","K"," ","R","e","m","a","s","t","e","r">>), WordB>>),
  Cat(<<WordB, Lit(<<"C","r","i","t","e","r","i","o","n">>), WordB>>),
  Cat(<<WordB, Lit(<<"C","r","i","t","e","r","i","o","n"," ","C","o","l","l","e","c","t","i","o","n">>), WordB>>),
  Cat(<<WordB, Lit(<<"U","l","t","i","m","a","t","e">>), WordB>>),
  Cat(<<WordB, Lit(<<"T","h","e","a","t","r","i","c","a","l">>), WordB>>)
>>

quality_of(normalized_title) ==
  With(\* the labels of the quality patterns that match, in registry order
       With(quality_patterns, LAMBDA patterns :
         With(Ascending({k \in 1..Len(patterns) :
                           search(patterns[k].re, normalized_title) # NoMatch}),
              LAMBDA main : [r \in 1..Len(main) |-> patterns[main[r]].label]))
       \* quality_modifiers: what the modifier patterns match, then the version
       \o With(modifier_patterns, LAMBDA patterns :
            With(Ascending({k \in 1..Len(patterns) :
                              search(patterns[k], normalized_title) # NoMatch}),
                 LAMBDA hit : [r \in 1..Len(hit) |->
                                 group0(normalized_title,
                                        search(patterns[hit[r]], normalized_title))]))
       \o With(search(Cat(<<WordB, Lit(<<"v">>), Grp(1, Rep(In(DIGIT), 1, -1)), WordB>>), normalized_title), LAMBDA version_match :
            IF version_match # NoMatch
            THEN <<<<"v">> \o group(normalized_title, version_match, 1)>> ELSE <<>>),
       LAMBDA qualities :
         IF qualities = <<>> THEN None ELSE join(<<","," ">>, qualities))

year_patterns == <<
  [name |-> "(####)", label |-> <<"(","#","#","#","#",")">>, n |-> 1, groupindex |-> <<>>, re |->
     Cat(<<Lit(<<"(">>), Grp(1, Rep(In(DIGIT), 4, 4)), Lit(<<")">>)>>)],
  [name |-> "####", label |-> <<"#","#","#","#">>, n |-> 1, groupindex |-> <<>>, re |->
     Cat(<<WordB, Grp(1, Rep(In(DIGIT), 4, 4)), WordB>>)],
  [name |-> "'##", label |-> <<"'","#","#">>, n |-> 1, groupindex |-> <<>>, re |->
     Cat(<<Lit(<<"'">>), Grp(1, Rep(In(DIGIT), 2, 2)), WordB>>)],
  [name |-> "####-####", label |-> <<"#","#","#","#","-","#","#","#","#">>, n |-> 2, groupindex |-> <<>>, re |->
     Cat(<<WordB, Grp(1, Rep(In(DIGIT), 4, 4)), Lit(<<"-">>), Grp(2, Rep(In(DIGIT), 4, 4)), WordB>>)],
  [name |-> "(####-####)", label |-> <<"(","#","#","#","#","-","#","#","#","#",")">>, n |-> 2, groupindex |-> <<>>, re |->
     Cat(<<Lit(<<"(">>), Grp(1, Rep(In(DIGIT), 4, 4)), Lit(<<"-">>), Grp(2, Rep(In(DIGIT), 4, 4)), Lit(<<")">>)>>)]
>>

\* 1900 <= int(year) <= datetime.now().year + 1
PlausibleYear(year, now) == 1900 <= int(year) /\ int(year) <= now + 1

\* the loop of parse_year over the single-year patterns from index k on
RECURSIVE YearFrom(_, _, _, _)
YearFrom(patterns, k, normalized_title, now) ==
  With({j \in k..Len(patterns) : search(patterns[j].re, normalized_title) # NoMatch},
       LAMBDA hits :
         IF hits = {} THEN None
         ELSE With([name |-> patterns[min(hits)].name,
                    m |-> search(patterns[min(hits)].re, normalized_title)],
                   LAMBDA e :
                     With(<<group(normalized_title, e.m, 1), group(normalized_title, e.m, 2)>>,
                          LAMBDA g :
                            IF e.name = "(####)" THEN g[1]
                            ELSE IF e.name = "####" /\ PlausibleYear(g[1], now) THEN g[1]
                            ELSE IF e.name = "'##"
                            THEN (IF int(g[1]) < 50 THEN <<"2","0">> ELSE <<"1","9">>) \o g[1]
                            ELSE IF /\ e.name = "####-####"
                                    /\ PlausibleYear(g[1], now) /\ PlausibleYear(g[2], now)
                            THEN g[1] \o <<"-">> \o g[2]
                            ELSE YearFrom(patterns, min(hits) + 1, normalized_title, now))))

year_of(normalized_title, now) ==
  With(search(Cat(<<WordB, Grp(1, Cat(<<Grp(2, Alt(<<LitCS(<<"1","9">>), LitCS(<<"2","0">>)>>)), Rep(In(DIGIT), 2, 2)>>)), LitCS(<<"-">>), Grp(3, Cat(<<Grp(4, Alt(<<LitCS(<<"1","9">>), LitCS(<<"2","0">>)>>)), Rep(In(DIGIT), 2, 2)>>)), WordB>>), normalized_title),
       LAMBDA year_range_match :
         IF /\ year_range_match # NoMatch
            /\ PlausibleYear(group(normalized_title, year_range_match, 1), now)
            /\ PlausibleYear(group(normalized_title, year_range_match, 3), now)
         THEN group(normalized_title, year_range_match, 1) \o <<"-">>
                \o group(normalized_title, year_range_match, 3)
         ELSE YearFrom(year_patterns, 1, normalized_title, now))

website_patterns == <<
  [name |-> "WebsitePrefix", label |-> <<"W","e","b","s","i","t","e","P","r","e","f","i","x">>, n |-> 1, groupindex |-> <<>>, re |->
     Cat(<<Bol, Rep(Lit(<<"w","w","w",".">>), 0, 1), Grp(1, Cat(<<Rep(In(LOWER \cup UPPER \cup DIGIT \cup {"-"}), 2, -1), Lit(<<".">>), Alt(<<Lit(<<"c","o","m">>), Lit(<<"o","r","g">>), Lit(<<"n","e","t">>), Lit(<<"w","s">>), Lit(<<"i","n","f","o">>), Lit(<<"b","i","z">>), Lit(<<"t","v">>), Lit(<<"c","c">>), Lit(<<"i","o">>), Lit(<<"m","e">>), Lit(<<"u","s">>), Lit(<<"u","k">>), Lit(<<"d","e">>), Lit(<<"f","r">>), Lit(<<"f","i">>), Lit(<<"e","s">>), Lit(<<"i","t">>), Lit(<<"r","u">>), Lit(<<"c","a">>), Lit(<<"a","u">>), Lit(<<"n","z">>), Lit(<<"j","p">>), Lit(<<"c","n">>), Lit(<<"i","n">>), Lit(<<"b","r">>), Lit(<<"m","x">>), Lit(<<"l","v">>), Lit(<<"p","r","o">>), Lit(<<"x","y","z">>), Lit(<<"s","i","t","e">>), Lit(<<"o","n","l","i","n","e">>), Lit(<<"t","e","c","h">>), Lit(<<"c","l","u","b">>), Lit(<<"f","u","n">>), Lit(<<"s","t","o","r","e">>), Lit(<<"s","h","o","p">>), Lit(<<"b","l","o","g">>), Lit(<<"a","p","p">>), Lit(<<"d","e","v">>), Lit(<<"e","d","u">>), Lit(<<"g","o","v">>), Lit(<<"m","i","l">>)>>), Rep(In(LOWER \cup UPPER \cup DIGIT \cup {"-","."}), 0, -1)>>))>>)],
  [name |-> "(WEBSITE)", label |-> <<"(","W","E","B","S","I","T","E",")">>, n |-> 1, groupindex |-> <<>>, re |->
     Cat(<<Lit(<<"(">>), Rep(Lit(<<"w","w","w",".">>), 0, 1), Grp(1, Cat(<<Rep(In(LOWER \cup UPPER \cup DIGIT \cup {"-"}), 2, -1), Lit(<<".">>), Alt(<<Lit(<<"c","o","m">>), Lit(<<"o","r","g">>), Lit(<<"n","e","t">>), Lit(<<"i","n","f","o">>), Lit(<<"w","s">>), Lit(<<"b","i","z">>), Lit(<<"t","v">>), Lit(<<"c","c">>), Lit(<<"i","o">>), Lit(<<"m","e">>), Lit(<<"u","s">>), Lit(<<"u","k">>), Lit(<<"d","e">>), Lit(<<"f","r">>), Lit(<<"f","i">>), Lit(<<"e","s">>), Lit(<<"i","t">>), Lit(<<"r","u">>), Lit(<<"c","a">>), Lit(<<"a","u">>), Lit(<<"n","z">>), Lit(<<"j","p">>), Lit(<<"c","n">>), Lit(<<"i","n">>), Lit(<<"b","r">>), Lit(<<"m","x">>), Lit(<<"l","v">>), Lit(<<"p","r","o">>), Lit(<<"x","y","z">>), Lit(<<"s","i","t","e">>), Lit(<<"o","n","l","i","n","e">>), Lit(<<"t","e","c","h">>), Lit(<<"c","l","u","b">>), Lit(<<"f","u","n">>), Lit(<<"s","t","o","r","e">>), Lit(<<"s","h","o","p">>), Lit(<<"b","l","o","g">>), Lit(<<"a","p","p">>), Lit(<<"d","e","v">>), Lit(<<"e","d","u">>), Lit(<<"g","o","v">>), Lit(<<"m","i","l">>)>>), Rep(In(LOWER \cup UPPER \cup DIGIT \cup {"-","."}), 0, -1)>>)), Lit(<<")">>)>>)],
  [name |-> "[WEBSITE]", label |-> <<"[","W","E","B","S","I","T","E","]">>, n |-> 1, groupindex |-> <<>>, re |->
     Cat(<<Lit(<<"[">>), Rep(Lit(<<"w","w","w",".">>), 0, 1), Grp(1, Cat(<<Rep(In(LOWER \cup UPPER \cup DIGIT \cup {"-"}), 2, -1), Lit(<<".">>), Alt(<<Lit(<<"c","o","m">>), Lit(<<"o","r","g">>), Lit(<<"n","e","t">>), Lit(<<"i","n","f","o">>), Lit(<<"w","s">>), Lit(<<"b","i","z">>), Lit(<<"t","v">>), Lit(<<"c","c">>), Lit(<<"i","o">>), Lit(<<"m","e">>), Lit(<<"u","s">>), Lit(<<"u","k">>), Lit(<<"d","e">>), Lit(<<"f","r">>), Lit(<<"f","i">>), Lit(<<"e","s">>), Lit(<<"i","t">>), Lit(<<"r","u">>), Lit(<<"c","a">>), Lit(<<"a","u">>), Lit(<<"n","z">>), Lit(<<"j","p">>), Lit(<<"c","n">>), Lit(<<"i","n">>), Lit(<<"b","r">>), Lit(<<"m","x">>), Lit(<<"l","v">>), Lit(<<"p","r","o">>), Lit(<<"x","y","z">>), Lit(<<"s","i","t","e">>), Lit(<<"o","n","l","i","n","e">>), Lit(<<"t","e","c","h">>), Lit(<<"c","l","u","b">>), Lit(<<"f","u","n">>), Lit(<<"s","t","o","r","e">>), Lit(<<"s","h","o","p">>), Lit(<<"b","l","o","g">>), Lit(<<"a","p","p">>), Lit(<<"d","e","v">>), Lit(<<"e","d","u">>), Lit(<<"g","o","v">>), Lit(<<"m","i","l">>)>>), Rep(In(LOWER \cup UPPER \cup DIGIT \cup {"-","."}), 0, -1)>>)), Lit(<<"]">>)>>)],
  [name |-> "WebsiteAnywhere", label |-> <<"W","e","b","s","i","t","e","A","n","y","w","h","e","r","e">>, n |-> 1, groupindex |-> <<>>, re |->
     Cat(<<WordB, Rep(Lit(<<"w","w","w",".">>), 0, 1), Grp(1, Cat(<<Rep(In(LOWER \cup UPPER \cup DIGIT \cup {"-"}), 2, -1), Lit(<<".">>), Alt(<<Lit(<<"c","o","m">>), Lit(<<"o","r","g">>), Lit(<<"n","e","t">>), Lit(<<"i","n","f","o">>), Lit(<<"w","s">>), Lit(<<"b","i","z">>), Lit(<<"t","v">>), Lit(<<"c","c">>), Lit(<<"i","o">>), Lit(<<"m","e">>), Lit(<<"u","s">>), Lit(<<"u","k">>), Lit(<<"d","e">>), Lit(<<"f","r">>), Lit(<<"f","i">>), Lit(<<"e","s">>), Lit(<<"i","t">>), Lit(<<"r","u">>), Lit(<<"c","a">>), Lit(<<"a","u">>), Lit(<<"n","z">>), Lit(<<"j","p">>), Lit(<<"c","n">>), Lit(<<"i","n">>), Lit(<<"b","r">>), Lit(<<"m","x">>), Lit(<<"l","v">>), Lit(<<"p","r","o">>), Lit(<<"x","y","z">>), Lit(<<"s","i","t","e">>), Lit(<<"o","n","l","i","n","e">>), Lit(<<"t","e","c","h">>), Lit(<<"c","l","u","b">>), Lit(<<"f","u","n">>), Lit(<<"s","t","o","r","e">>), Lit(<<"s","h","o","p">>), Lit(<<"b","l","o","g">>), Lit(<<"a","p","p">>), Lit(<<"d","e","v">>), Lit(<<"e","d","u">>), Lit(<<"g","o","v">>), Lit(<<"m","i","l">>)>>), Rep(Cat(<<Lit(<<"/">>), Rep(NotIn(SPACE), 0, -1)>>), 0, 1), WordB>>))>>)],
  [name |-> "KnownSites", label |-> <<"K","n","o","w","n","S","i","t","e","s">>, n |-> 0, groupindex |-> <<>>, re |->
     Cat(<<WordB, Alt(<<Lit(<<"T","a","m","i","l","R","o","c","k","e","r","s">>), Lit(<<"k","i","n","o","k","o","p","i","l","k","a">>), Lit(<<"Y","T","S",".","M","X">>), Lit(<<"R","A","R","B","G">>), Lit(<<"E","T","R","G">>), Lit(<<"E","V","O">>), Lit(<<"T","i","g","o","l","e">>), Lit(<<"Q","x","R">>), Lit(<<"D","D","R">>), Lit(<<"C","M">>), Lit(<<"T","B","S">>), Lit(<<"N","T","b">>), Lit(<<"T","L","A">>), Lit(<<"F","G","T">>), Lit(<<"F","Q","M">>), Lit(<<"T","r","o","l","l","H","D">>), Lit(<<"C","t","r","l","H","D">>), Lit(<<"E","b","P">>), Lit(<<"D","-","Z","0","N","3">>), Lit(<<"d","e","c","i","b","e","L">>), Lit(<<"H","D","C","h","i","n","a">>), Lit(<<"C","H","D">>), Lit(<<"W","i","K","i">>), Lit(<<"N","G","B">>), Lit(<<"H","D","W","i","n","G">>), Lit(<<"H","D","S">>), Lit(<<"H","D","A","r","e","a">>), Lit(<<"H","D","B","i","t","s">>), Lit(<<"B","e","y","o","n","d","H","D">>), Lit(<<"B","L","U","T","O","N","I","U","M">>), Lit(<<"F","r","a","M","e","S","T","o","R">>), Lit(<<"T","a","y","T","O">>), Lit(<<"T","G","x">>), Lit(<<"N","Z","B","G","e","e","k">>)>>), WordB>>)]
>>

false_positives == {
  <<"1","0","8","0","p">>,
  <<"2","1","6","0","p">>,
  <<"4","k">>,
  <<"7","2","0","p">>,
  <<"b","l","u","-","r","a","y">>,
  <<"b","l","u","r","a","y">>,
  <<"c","o","m","b","i","n","e","d">>,
  <<"c","o","m","p","l","e","t","e">>,
  <<"c","u","t">>,
  <<"d","i","r","e","c","t","o","r">>,
  <<"d","o","l","b","y">>,
  <<"d","u","a","l">>,
  <<"e","p","i","s","o","d","e">>,
  <<"e","p","i","s","o","d","e","s">>,
  <<"e","x","t","e","n","d","e","d">>,
  <<"f","i","n","a","l">>,
  <<"f","u","l","l">>,
  <<"h","d","t","v">>,
  <<"m","u","l","t","i">>,
  <<"p","a","r","t">>,
  <<"p","r","o","p","e","r">>,
  <<"r","e","m","u","x">>,
  <<"r","e","p","a","c","k">>,
  <<"s","e","a","s","o","n">>,
  <<"s","t","e","r","e","o">>,
  <<"s","u","r","r","o","u","n","d">>,
  <<"t","h","e","a","t","r","i","c","a","l">>,
  <<"u","n","c","u","t">>,
  <<"u","n","r","a","t","e","d">>,
  <<"w","e","b","-","d","l">>,
  <<"w","e","b","r","i","p">>
}

media_extensions == <<<<".","m","k","v">>, <<".","m","p","4">>, <<".","a","v","i">>, <<".","m","4","v">>, <<".","m","p","g">>, <<".","m","p","e","g">>, <<".","s","r","t">>, <<".","s","u","b">>>>

_is_false_positive_website(website) ==
  \E website_lower \in {lower(website)} :
    \E website_parts \in {split(website_lower, ".")} :
      \/ \E k \in 1..Len(website_parts) : website_parts[k] \in false_positives
      \/ \E k \in 1..Len(media_extensions) : contains(website_lower, media_extensions[k])
      \/ Len(website_lower) < 6
      \/ /\ Len(website_parts) > 1
         /\ \E k \in 1..(Len(website_parts) - 1) : Len(website_parts[k]) < 3

\* what parse_website takes from a match of the entry e
WebsiteText(e, title, m) ==
  IF e.name \in {"WebsitePrefix", "[WEBSITE]", "(WEBSITE)", "WebsiteAnywhere"}
  THEN group(title, m, 1)
  ELSE IF e.name = "KnownSites" THEN group0(title, m)
  ELSE None

\* inner loop of parse_website: the matches ms[j..] of the entry e
RECURSIVE WebsiteMatchesFrom(_, _, _, _, _)
WebsiteMatchesFrom(websites, e, title, ms, j) ==
  IF j > Len(ms) THEN websites
  ELSE With(WebsiteText(e, title, ms[j]), LAMBDA website :
         WebsiteMatchesFrom(
           IF /\ website # None
              /\ website # <<>>
              /\ website \notin ToSet(websites)
              /\ ~ _is_false_positive_website(website)
           THEN Append(websites, website) ELSE websites,
           e, title, ms, j + 1))

\* outer loop of parse_website: the entries from index i on
RECURSIVE WebsitePatternsFrom(_, _, _, _)
WebsitePatternsFrom(patterns, websites, i, title) ==
  With({j \in i..Len(patterns) : search(patterns[j].re, title) # NoMatch}, LAMBDA hits :
    IF hits = {} THEN websites
    ELSE WebsitePatternsFrom(
           patterns,
           WebsiteMatchesFrom(websites, patterns[min(hits)], title,
                              finditer(patterns[min(hits)].re, title), 1),
           min(hits) + 1, title))

parse_website(title) ==
  With(WebsitePatternsFrom(website_patterns, <<>>, 1, title), LAMBDA websites :
    IF websites = <<>> THEN None ELSE join(<<","," ">>, websites))

encoder_patterns == <<
  [name |-> "-ENCODER", label |-> <<"-","E","N","C","O","D","E","R">>, n |-> 1, groupindex |-> <<<<"encoder", 1>>>>, re |->
     Cat(<<Lit(<<"-">>), Grp(1, Rep(In(LOWER \cup UPPER), 2, -1)), Ahead(Alt(<<Cat(<<Lit(<<".">>), Rep(In(LOWER \cup UPPER), 2, 4), Eol>>), Eol>>))>>)],
  [name |-> "[ENCODER]", label |-> <<"[","E","N","C","O","D","E","R","]">>, n |-> 1, groupindex |-> <<<<"encoder", 1>>>>, re |->
     Cat(<<Lit(<<"[">>), NotAhead(Alt(<<Cat(<<Rep(In(DIGIT), 1, -1), Lit(<<"p">>)>>), Rep(In(DIGIT), 4, 4), Lit(<<"W","E","B","R","i","p">>), Lit(<<"W","E","B","-","D","L">>), Lit(<<"H","D","T","V">>), Lit(<<"B","l","u","R","a","y">>)>>)), Grp(1, Rep(In(LOWER \cup UPPER \cup DIGIT), 2, -1)), Lit(<<"]">>)>>)],
  [name |-> "(ENCODER)", label |-> <<"(","E","N","C","O","D","E","R",")">>, n |-> 1, groupindex |-> <<<<"encoder", 1>>>>, re |->
     Cat(<<Lit(<<"(">>), NotAhead(Alt(<<Cat(<<Rep(In(DIGIT), 1, -1), Lit(<<"p">>)>>), Rep(In(DIGIT), 4, 4), Lit(<<"W","E","B","R","i","p">>), Lit(<<"W","E","B","-","D","L">>), Lit(<<"H","D","T","V">>), Lit(<<"B","l","u","R","a","y">>)>>)), Grp(1, Rep(In(LOWER \cup UPPER \cup DIGIT), 2, -1)), Lit(<<")">>)>>)]
>>

encoder_of(normalized_title) ==
  With(FirstHit(encoder_patterns, normalized_title), LAMBDA hit :
    IF hit = NoMatch THEN None
    ELSE group(normalized_title, hit.m, get(hit.e.groupindex, "encoder", 1)))

group_patterns == <<
  [name |-> "-GROUP", label |-> <<"-","G","R","O","U","P">>, n |-> 1, groupindex |-> <<<<"group", 1>>>>, re |->
     Cat(<<Lit(<<"-">>), Grp(1, Cat(<<NotAhead(Cat(<<Rep(In(DIGIT), 1, -1), Eol>>)), Rep(In(LOWER \cup UPPER \cup DIGIT), 2, -1)>>)), Ahead(Alt(<<Cat(<<Lit(<<".">>), Rep(In(LOWER \cup UPPER), 2, 4), Eol>>), Eol>>))>>)],
  [name |-> "[GROUP]", label |-> <<"[","G","R","O","U","P","]">>, n |-> 1, groupindex |-> <<<<"group", 1>>>>, re |->
     Cat(<<Lit(<<"[">>), Grp(1, Cat(<<NotAhead(Cat(<<Rep(In(DIGIT), 1, -1), Eol>>)), Rep(In(LOWER \cup UPPER \cup DIGIT), 2, -1)>>)), Lit(<<"]">>), Ahead(Alt(<<Cat(<<Lit(<<".">>), Rep(In(LOWER \cup UPPER), 2, 4), Eol>>), Eol>>))>>)],
  [name |-> "(GROUP)", label |-> <<"(","G","R","O","U","P",")">>, n |-> 1, groupindex |-> <<<<"group", 1>>>>, re |->
     Cat(<<Lit(<<"(">>), Grp(1, Cat(<<NotAhead(Cat(<<Rep(In(DIGIT), 1, -1), Eol>>)), Rep(In(LOWER \cup UPPER \cup DIGIT), 2, -1)>>)), Lit(<<")">>), Ahead(Alt(<<Cat(<<Lit(<<".">>), Rep(In(LOWER \cup UPPER), 2, 4), Eol>>), Eol>>))>>)],
  [name |-> "ExceptionGroup", label |-> <<"E","x","c","e","p","t","i","o","n","G","r","o","u","p">>, n |-> 0, groupindex |-> <<>>, re |->
     Cat(<<WordB, Alt(<<Lit(<<"D","-","Z","0","N","3">>), Lit(<<"F","i","g","h","t","-","B","B">>), Lit(<<"V","A","R","Y","G">>), Lit(<<"E",".","N",".","D">>), Lit(<<"K","R","a","L","i","M","a","R","K","o">>), Lit(<<"B","l","u","D","r","a","g","o","n">>), Lit(<<"D","a","r","Q">>), Lit(<<"K","C","R","T">>), Cat(<<Lit(<<"B","E","N">>), In({" ",".","_"}), Lit(<<"T","H","E">>), In({" ",".","_"}), Lit(<<"M","E","N">>)>>), Lit(<<"T","A","o","E">>), Lit(<<"Q","x","R">>), Lit(<<"J","o","y">>), Lit(<<"I","m","E">>), Lit(<<"U","T","R">>), Lit(<<"t","3","n","z","i","n">>), Lit(<<"A","n","i","m","e"," ","T","i","m","e">>), Lit(<<"P","r","o","j","e","c","t"," ","A","n","g","e","l">>), Lit(<<"H","a","k","a","t","a"," ","R","a","m","e","n">>), Lit(<<"H","O","N","E">>), Lit(<<"V","y","n","d","r","o","s">>), Lit(<<"S","E","V">>), Lit(<<"G","a","r","s","h","a","s","p">>), Lit(<<"K","a","p","p","a">>), Lit(<<"N","a","t","t","y">>), Lit(<<"R","C","V","R">>), Lit(<<"S","A","M","P","A">>), Lit(<<"Y","O","G","I">>), Lit(<<"r","0","0","t">>), Lit(<<"E","D","G","E","2","0","2","0">>)>>), WordB>>)],
  [name |-> "AnimeSubgroup", label |-> <<"A","n","i","m","e","S","u","b","g","r","o","u","p">>, n |-> 1, groupindex |-> <<<<"subgroup", 1>>>>, re |->
     Cat(<<Bol, Lit(<<"[">>), Grp(1, RepLazy(NotIn({"]"}), 1, -1)), Lit(<<"]">>), In(SPACE \cup {"-",".","_"})>>)]
>>

\* second loop of parse_group: the entries other than AnimeSubgroup from k on
RECURSIVE GroupFrom(_, _, _)
GroupFrom(patterns, k, normalized_title) ==
  With({j \in k..Len(patterns) :
          /\ patterns[j].name # "AnimeSubgroup"
          /\ search(patterns[j].re, normalized_title) # NoMatch}, LAMBDA hits :
    IF hits = {} THEN None
    ELSE With(patterns[min(hits)], LAMBDA e :
           With(search(e.re, normalized_title), LAMBDA m :
             IF get(e.groupindex, "group", 0) # 0
             THEN group(normalized_title, m, get(e.groupindex, "group", 0))
             ELSE IF e.name = "ExceptionGroup" THEN group0(normalized_title, m)
             ELSE IF e.n > 0 THEN group(normalized_title, m, 1)
             ELSE GroupFrom(patterns, min(hits) + 1, normalized_title))))

group_of(normalized_title) ==
  With(group_patterns, LAMBDA patterns :
    With({j \in 1..Len(patterns) :
            /\ patterns[j].name = "AnimeSubgroup"
            /\ match(patterns[j].re, normalized_title) # NoMatch}, LAMBDA anime :
      IF anime # {}
      THEN With(patterns[min(anime)], LAMBDA e :
             group(normalized_title, match(e.re, normalized_title),
                   get(e.groupindex, "subgroup", 0)))
      ELSE GroupFrom(patterns, 1, normalized_title)))

\* the entries of a sequence without the repeats, in order of first occurrence
Unique(seq) ==
  With(Ascending({k \in 1..Len(seq) : \A j \in 1..(k - 1) : seq[j] # seq[k]}), LAMBDA first :
    [r \in 1..Len(first) |-> seq[first[r]]])

\* absolute_patterns of parse_anime_info.  The second pattern of the source,
\* (?<![Hx]\.?)\[(\d{2,4})\]|\((\d{2,4})\), has a look-behind of variable width:
\* compiling it raises re.error, which the loop catches, so it never matches.
absolute_patterns == <<
  Cat(<<NotBehind(DIGIT), Grp(1, Rep(In(DIGIT), 2, 4)), NotAhead(Alt(<<In(DIGIT \cup LOWER \cup UPPER), Lit(<<"p">>), Lit(<<"i">>), Cat(<<Lit(<<"x">>), In(DIGIT)>>), Cat(<<Lit(<<".">>), In(DIGIT)>>)>>))>>),
  Cat(<<Alt(<<Lit(<<"e","p","i","s","o","d","e">>), Lit(<<"e","p">>), Lit(<<"a","b","s">>), Lit(<<"a","b","s","o","l","u","t","e">>)>>), RepLazy(In({" ","-",".","_"}), 1, -1), Grp(1, Rep(In(DIGIT), 2, 4))>>),
  Cat(<<WordB, Grp(1, Rep(In(DIGIT), 2, 3)), Lit(<<"v">>), In(DIGIT), WordB>>)
>>

\* rf'S{n}E|E{n}|S\d+E{n}' and rf'(?:[Hx]\.?|HEVC|AVC|AV1|h){n}\b' (IGNORECASE)
InSeasonEpisode(n) ==
  Alt(<<Cat(<<LitCS(<<"S">>), LitCS(n), LitCS(<<"E">>)>>),
        Cat(<<LitCS(<<"E">>), LitCS(n)>>),
        Cat(<<LitCS(<<"S">>), Rep(In(DIGIT), 1, -1), LitCS(<<"E">>), LitCS(n)>>)>>)
AfterCodec(n) == Cat(<<Alt(<<Cat(<<In({"H","X","h","x"}), Rep(Lit(<<".">>), 0, 1)>>), Lit(<<"H","E","V","C">>), Lit(<<"A","V","C">>), Lit(<<"A","V","1">>), Lit(<<"h">>)>>), Lit(n), WordB>>)

anime_exclude_numbers(normalized_title) ==
  \* years, resolutions, season_numbers, preserved_pattern_numbers, codec_numbers
  ToSet(findall1(Cat(<<WordB, Grp(1, Alt(<<LitCS(<<"1","9">>), LitCS(<<"2","0">>)>>)), Rep(In(DIGIT), 2, 2), WordB>>), normalized_title))
    \cup ToSet(findall1(Cat(<<WordB, Grp(1, Alt(<<Lit(<<"3","6","0">>), Lit(<<"4","8","0">>), Lit(<<"7","2","0">>), Lit(<<"1","0","8","0">>), Lit(<<"1","4","4","0">>), Lit(<<"2","1","6","0">>), Lit(<<"4","K">>)>>)), Rep(Lit(<<"p">>), 0, 1), WordB>>), normalized_title))
    \cup ToSet(findall1(Cat(<<WordB, Lit(<<"S">>), Grp(1, Rep(In(DIGIT), 1, -1)), WordB>>), normalized_title))
    \cup ToSet(findall1(Cat(<<LitCS(<<"_","_","P","R","E","S","E","R","V","E","D","_">>), Grp(1, Rep(In(DIGIT), 1, -1)), LitCS(<<"_">>), Rep(In(DIGIT), 1, -1), LitCS(<<"_","_">>)>>), normalized_title))
    \cup ToSet(findall1(Cat(<<Alt(<<Cat(<<In({"H","X","h","x"}), Rep(Lit(<<".">>), 0, 1)>>), Lit(<<"H","E","V","C">>), Lit(<<"A","V","C">>), Lit(<<"A","V","1">>), Lit(<<"h">>)>>), Grp(1, Rep(In(DIGIT), 2, 3)), WordB>>), normalized_title))
    \* the number in each file size
    \cup {group(size, search(Grp(1, Cat(<<Rep(In(DIGIT), 1, -1), Rep(LitCS(<<".">>), 0, 1), Rep(In(DIGIT), 0, -1)>>)), size), 1) :
            size \in ToSet(findall0(Cat(<<WordB, Rep(In(DIGIT), 1, -1), Rep(Lit(<<".">>), 0, 1), Rep(In(DIGIT), 0, -1), In({"G","K","M","g","k","m"}), Lit(<<"B">>), WordB>>), normalized_title))}
    \* the first number in each video codec that has one
    \cup {group(codec[2], codec[1], 1) :
            codec \in {c \in {<<search(Grp(1, Rep(In(DIGIT), 1, -1)), name), name>> :
                               name \in ToSet(findall1(Cat(<<WordB, Grp(1, Alt(<<Lit(<<"H","E","V","C">>), Lit(<<"A","V","C">>), Lit(<<"A","V","1">>), Lit(<<"X","v","i","D">>), Lit(<<"D","i","v","X">>), Lit(<<"V","P","9">>), Lit(<<"h","2","6","4">>), Lit(<<"h","2","6","5">>)>>)), WordB>>), normalized_title))} :
                         c[1] # NoMatch}}

anime_info_of(normalized_title) ==
  With(anime_exclude_numbers(normalized_title), LAMBDA exclude :
    With(Unique(SelectSeq(
           With(absolute_patterns, LAMBDA patterns :
             findall1(patterns[1], normalized_title) \o
             findall1(patterns[2], normalized_title) \o
             findall1(patterns[3], normalized_title)),
           LAMBDA episode_num :
             /\ episode_num # <<>>
             /\ episode_num \notin exclude
             /\ search(InSeasonEpisode(episode_num), normalized_title) = NoMatch
             /\ search(AfterCodec(episode_num), normalized_title) = NoMatch
             /\ 1 <= int(episode_num) /\ int(episode_num) <= 2000)),
         LAMBDA unique_absolute_matches :
           [k \in (IF unique_absolute_matches # <<>> THEN {"absolute_episodes"} ELSE {})
                    \cup (IF search(Cat(<<WordB, Alt(<<Lit(<<"o","v","a">>), Lit(<<"o","v","d">>), Lit(<<"o","a","v">>), Lit(<<"s","p","e","c","i","a","l">>), Lit(<<"b","o","n","u","s">>), Lit(<<"e","x","t","r","a">>)>>), WordB>>),
                                    normalized_title) # NoMatch THEN {"special"} ELSE {})
                    \cup (IF search(Cat(<<WordB, Rep(In(DIGIT), 2, 4), Rep(In(SPACE), 0, -1), In({"-","~"}), Rep(In(SPACE), 0, -1), Rep(In(DIGIT), 2, 4), WordB>>),
                                    normalized_title) # NoMatch THEN {"batch"} ELSE {})
              |-> IF k = "absolute_episodes" THEN unique_absolute_matches ELSE TRUE]))

(***************************************************************************)
(* Episodes.                                                               *)
(***************************************************************************)
episode_patterns == <<
  [name |-> "## episodes", label |-> <<"#","#"," ","e","p","i","s","o","d","e","s">>, n |-> 1, groupindex |-> <<>>, re |->
     Cat(<<WordB, Grp(1, Rep(In(DIGIT), 1, 3)), Rep(In(SPACE), 1, -1), Lit(<<"e","p","i","s","o","d","e","s">>), WordB>>)],
  [name |-> "Episode #-#", label |-> <<"E","p","i","s","o","d","e"," ","#","-","#">>, n |-> 2, groupindex |-> <<>>, re |->
     Cat(<<Lit(<<"e","p","i","s","o","d","e">>), Rep(In(SPACE), 1, -1), Grp(1, Rep(In(DIGIT), 1, -1)), Lit(<<"-">>), Grp(2, Rep(In(DIGIT), 1, -1))>>)],
  [name |-> "Episode # - #", label |-> <<"E","p","i","s","o","d","e"," ","#"," ","-"," ","#">>, n |-> 2, groupindex |-> <<>>, re |->
     Cat(<<Lit(<<"e","p","i","s","o","d","e">>), Rep(In(SPACE), 1, -1), Grp(1, Rep(In(DIGIT), 1, -1)), Rep(In(SPACE), 0, -1), Lit(<<"-">>), Rep(In(SPACE), 0, -1), Grp(2, Rep(In(DIGIT), 1, -1))>>)],
  [name |-> "Episode ## - ##", label |-> <<"E","p","i","s","o","d","e"," ","#","#"," ","-"," ","#","#">>, n |-> 2, groupindex |-> <<>>, re |->
     Cat(<<Lit(<<"e","p","i","s","o","d","e">>), Rep(In(SPACE), 1, -1), Grp(1, Rep(In(DIGIT), 2, 2)), Rep(In(SPACE), 0, -1), Lit(<<"-">>), Rep(In(SPACE), 0, -1), Grp(2, Rep(In(DIGIT), 2, 2))>>)],
  [name |-> "Episode ##-##", label |-> <<"E","p","i","s","o","d","e"," ","#","#","-","#","#">>, n |-> 2, groupindex |-> <<>>, re |->
     Cat(<<Lit(<<"e","p","i","s","o","d","e">>), Rep(In(SPACE), 1, -1), Grp(1, Rep(In(DIGIT), 2, 2)), Lit(<<"-">>), Grp(2, Rep(In(DIGIT), 2, 2))>>)],
  [name |-> "EP #-#", label |-> <<"E","P"," ","#","-","#">>, n |-> 2, groupindex |-> <<>>, re |->
     Cat(<<Lit(<<"e","p">>), Rep(In(SPACE), 1, -1), Grp(1, Rep(In(DIGIT), 1, -1)), Lit(<<"-">>), Grp(2, Rep(In(DIGIT), 1, -1))>>)],
  [name |-> "EP ##-##", label |-> <<"E","P"," ","#","#","-","#","#">>, n |-> 2, groupindex |-> <<>>, re |->
     Cat(<<Lit(<<"e","p">>), Rep(In(SPACE), 1, -1), Grp(1, Rep(In(DIGIT), 2, 2)), Rep(In(SPACE), 0, -1), Lit(<<"-">>), Rep(In(SPACE), 0, -1), Grp(2, Rep(In(DIGIT), 2, 2))>>)],
  [name |-> "EP (##-##)", label |-> <<"E","P"," ","(","#","#","-","#","#",")">>, n |-> 2, groupindex |-> <<>>, re |->
     Cat(<<Lit(<<"e","p">>), Rep(In(SPACE), 0, -1), Lit(<<"(">>), Grp(1, Rep(In(DIGIT), 2, 2)), Lit(<<"-">>), Grp(2, Rep(In(DIGIT), 2, 2)), Lit(<<")">>)>>)],
  [name |-> "EP#-#", label |-> <<"E","P","#","-","#">>, n |-> 2, groupindex |-> <<>>, re |->
     Cat(<<Lit(<<"e","p">>), Grp(1, Rep(In(DIGIT), 1, -1)), Lit(<<"-">>), Grp(2, Rep(In(DIGIT), 1, -1))>>)],
  [name |-> "EP##-##", label |-> <<"E","P","#","#","-","#","#">>, n |-> 2, groupindex |-> <<>>, re |->
     Cat(<<Lit(<<"e","p">>), Grp(1, Rep(In(DIGIT), 2, 2)), Lit(<<"-">>), Grp(2, Rep(In(DIGIT), 2, 2))>>)],
  [name |-> "E#-#", label |-> <<"E","#","-","#">>, n |-> 2, groupindex |-> <<>>, re |->
     Cat(<<Lit(<<"e">>), Grp(1, In(DIGIT)), Lit(<<"-">>), Grp(2, In(DIGIT))>>)],
  [name |-> "E##-##", label |-> <<"E","#","#","-","#","#">>, n |-> 2, groupindex |-> <<>>, re |->
     Cat(<<Lit(<<"e">>), Grp(1, Rep(In(DIGIT), 2, 2)), Lit(<<"-">>), Grp(2, Rep(In(DIGIT), 2, 2))>>)],
  [name |-> "E#E#", label |-> <<"E","#","E","#">>, n |-> 2, groupindex |-> <<>>, re |->
     Cat(<<Lit(<<"e">>), Grp(1, In(DIGIT)), Lit(<<"e">>), Grp(2, In(DIGIT))>>)],
  [name |-> "E##E##", label |-> <<"E","#","#","E","#","#">>, n |-> 2, groupindex |-> <<>>, re |->
     Cat(<<Lit(<<"e">>), Grp(1, Rep(In(DIGIT), 2, 2)), Lit(<<"e">>), Grp(2, Rep(In(DIGIT), 2, 2))>>)],
  [name |-> "E#-#", label |-> <<"E","#","-","#">>, n |-> 2, groupindex |-> <<>>, re |->
     Cat(<<Lit(<<"e">>), Grp(1, Rep(In(DIGIT), 1, -1)), Lit(<<"-">>), Grp(2, Rep(In(DIGIT), 1, -1))>>)],
  [name |-> "E#-#", label |-> <<"E","#","-","#">>, n |-> 2, groupindex |-> <<>>, re |->
     Cat(<<NotBehind({"X","x"}), Lit(<<"e">>), Grp(1, Rep(In(DIGIT), 1, -1)), Lit(<<"-">>), Grp(2, Rep(In(DIGIT), 1, -1))>>)],
  [name |-> "E##-##", label |-> <<"E","#","#","-","#","#">>, n |-> 2, groupindex |-> <<>>, re |->
     Cat(<<Lit(<<"e">>), Grp(1, Rep(In(DIGIT), 2, 2)), Lit(<<"-">>), Grp(2, Rep(In(DIGIT), 2, 2))>>)],
  [name |-> "Episodes # - #", label |-> <<"E","p","i","s","o","d","e","s"," ","#"," ","-"," ","#">>, n |-> 2, groupindex |-> <<>>, re |->
     Cat(<<Lit(<<"e","p","i","s","o","d","e","s">>), Rep(In(SPACE), 1, -1), Grp(1, Rep(In(DIGIT), 1, -1)), Rep(In(SPACE), 0, -1), Lit(<<"-">>), Rep(In(SPACE), 0, -1), Grp(2, Rep(In(DIGIT), 1, -1))>>)],
  [name |-> "Episodes ## - ##", label |-> <<"E","p","i","s","o","d","e","s"," ","#","#"," ","-"," ","#","#">>, n |-> 2, groupindex |-> <<>>, re |->
     Cat(<<Lit(<<"e","p","i","s","o","d","e","s">>), Rep(In(SPACE), 1, -1), Grp(1, Rep(In(DIGIT), 2, 2)), Rep(In(SPACE), 0, -1), Lit(<<"-">>), Rep(In(SPACE), 0, -1), Grp(2, Rep(In(DIGIT), 2, 2))>>)],
  [name |-> "Episodes #-#", label |-> <<"E","p","i","s","o","d","e","s"," ","#","-","#">>, n |-> 2, groupindex |-> <<>>, re |->
     Cat(<<Lit(<<"e","p","i","s","o","d","e","s">>), Rep(In(SPACE), 1, -1), Grp(1, Rep(In(DIGIT), 1, -1)), Lit(<<"-">>), Grp(2, Rep(In(DIGIT), 1, -1))>>)],
  [name |-> "Episodes ##-##", label |-> <<"E","p","i","s","o","d","e","s"," ","#","#","-","#","#">>, n |-> 2, groupindex |-> <<>>, re |->
     Cat(<<Lit(<<"e","p","i","s","o","d","e","s">>), Rep(In(SPACE), 1, -1), Grp(1, Rep(In(DIGIT), 2, 2)), Lit(<<"-">>), Grp(2, Rep(In(DIGIT), 2, 2))>>)],
  [name |-> "Episodes # to #", label |-> <<"E","p","i","s","o","d","e","s"," ","#"," ","t","o"," ","#">>, n |-> 2, groupindex |-> <<>>, re |->
     Cat(<<Lit(<<"e","p","i","s","o","d","e","s">>), Rep(In(SPACE), 1, -1), Grp(1, Rep(In(DIGIT), 1, -1)), Rep(In(SPACE), 1, -1), Lit(<<"t","o">>), Rep(In(SPACE), 1, -1), Grp(2, Rep(In(DIGIT), 1, -1))>>)],
  [name |-> "Episodes ## to ##", label |-> <<"E","p","i","s","o","d","e","s"," ","#","#"," ","t","o"," ","#","#">>, n |-> 2, groupindex |-> <<>>, re |->
     Cat(<<Lit(<<"e","p","i","s","o","d","e","s">>), Rep(In(SPACE), 1, -1), Grp(1, Rep(In(DIGIT), 2, 2)), Rep(In(SPACE), 1, -1), Lit(<<"t","o">>), Rep(In(SPACE), 1, -1), Grp(2, Rep(In(DIGIT), 2, 2))>>)],
  [name |-> "Ep # to #", label |-> <<"E","p"," ","#"," ","t","o"," ","#">>, n |-> 2, groupindex |-> <<>>, re |->
     Cat(<<Lit(<<"e","p">>), Rep(In(SPACE), 1, -1), Grp(1, Rep(In(DIGIT), 1, -1)), Rep(In(SPACE), 1, -1), Lit(<<"t","o">>), Rep(In(SPACE), 1, -1), Grp(2, Rep(In(DIGIT), 1, -1))>>)],
  [name |-> "Ep ## to ##", label |-> <<"E","p"," ","#","#"," ","t","o"," ","#","#">>, n |-> 2, groupindex |-> <<>>, re |->
     Cat(<<Lit(<<"e","p">>), Rep(In(SPACE), 1, -1), Grp(1, Rep(In(DIGIT), 2, 2)), Rep(In(SPACE), 1, -1), Lit(<<"t","o">>), Rep(In(SPACE), 1, -1), Grp(2, Rep(In(DIGIT), 2, 2))>>)],
  [name |-> "E# to E#", label |-> <<"E","#"," ","t","o"," ","E","#">>, n |-> 2, groupindex |-> <<>>, re |->
     Cat(<<Lit(<<"e">>), Grp(1, In(DIGIT)), Rep(In(SPACE), 1, -1), Lit(<<"t","o">>), Rep(In(SPACE), 1, -1), Lit(<<"e">>), Grp(2, In(DIGIT))>>)],
  [name |-> "E## to E##", label |-> <<"E","#","#"," ","t","o"," ","E","#","#">>, n |-> 2, groupindex |-> <<>>, re |->
     Cat(<<Lit(<<"e">>), Grp(1, Rep(In(DIGIT), 2, 2)), Rep(In(SPACE), 1, -1), Lit(<<"t","o">>), Rep(In(SPACE), 1, -1), Lit(<<"e">>), Grp(2, Rep(In(DIGIT), 2, 2))>>)],
  [name |-> "EP #", label |-> <<"E","P"," ","#">>, n |-> 1, groupindex |-> <<>>, re |->
     Cat(<<Lit(<<"e","p">>), Rep(In(SPACE), 1, -1), Grp(1, Rep(In(DIGIT), 1, -1))>>)],
  [name |-> "EP ##", label |-> <<"E","P"," ","#","#">>, n |-> 1, groupindex |-> <<>>, re |->
     Cat(<<Lit(<<"e","p">>), Rep(In(SPACE), 1, -1), Grp(1, Rep(In(DIGIT), 2, 2))>>)],
  [name |-> "EP (##)", label |-> <<"E","P"," ","(","#","#",")">>, n |-> 1, groupindex |-> <<>>, re |->
     Cat(<<Lit(<<"e","p">>), Rep(In(SPACE), 0, -1), Lit(<<"(">>), Grp(1, Rep(In(DIGIT), 2, 2)), Lit(<<")">>)>>)],
  [name |-> "EP#", label |-> <<"E","P","#">>, n |-> 1, groupindex |-> <<>>, re |->
     Cat(<<Lit(<<"e","p">>), Grp(1, Rep(In(DIGIT), 1, -1))>>)],
  [name |-> "EP##", label |-> <<"E","P","#","#">>, n |-> 1, groupindex |-> <<>>, re |->
     Cat(<<Lit(<<"e","p">>), Grp(1, Rep(In(DIGIT), 2, 2))>>)],
  [name |-> "E#", label |-> <<"E","#">>, n |-> 1, groupindex |-> <<>>, re |->
     Cat(<<Lit(<<"e">>), Grp(1, In(DIGIT)), WordB>>)],
  [name |-> "E##", label |-> <<"E","#","#">>, n |-> 1, groupindex |-> <<>>, re |->
     Cat(<<Lit(<<"e">>), Grp(1, Rep(In(DIGIT), 2, 2))>>)],
  [name |-> "S#xE#", label |-> <<"S","#","x","E","#">>, n |-> 2, groupindex |-> <<>>, re |->
     Cat(<<Lit(<<"s">>), Grp(1, Rep(In(DIGIT), 1, -1)), Lit(<<"x">>), Rep(Lit(<<"e">>), 0, 1), Grp(2, Rep(In(DIGIT), 1, -1))>>)],
  [name |-> "Episode #", label |-> <<"E","p","i","s","o","d","e"," ","#">>, n |-> 1, groupindex |-> <<>>, re |->
     Cat(<<Lit(<<"e","p","i","s","o","d","e">>), Rep(In(SPACE), 1, -1), Grp(1, Rep(In(DIGIT), 1, -1))>>)],
  [name |-> "Episode ##", label |-> <<"E","p","i","s","o","d","e"," ","#","#">>, n |-> 1, groupindex |-> <<>>, re |->
     Cat(<<Lit(<<"e","p","i","s","o","d","e">>), Rep(In(SPACE), 1, -1), Grp(1, Rep(In(DIGIT), 2, 2))>>)],
  [name |-> "Complete Episodes", label |-> <<"C","o","m","p","l","e","t","e"," ","E","p","i","s","o","d","e","s">>, n |-> 0, groupindex |-> <<>>, re |->
     Cat(<<Lit(<<"c","o","m","p","l","e","t","e">>), Rep(In({" ","-",".","_"}), 1, -1), Lit(<<"e","p","i","s","o","d","e","s">>)>>)],
  [name |-> "All Episodes", label |-> <<"A","l","l"," ","E","p","i","s","o","d","e","s">>, n |-> 0, groupindex |-> <<>>, re |->
     Cat(<<Lit(<<"a","l","l">>), Rep(In({" ","-",".","_"}), 1, -1), Lit(<<"e","p","i","s","o","d","e","s">>)>>)],
  [name |-> "Full Episode", label |-> <<"F","u","l","l"," ","E","p","i","s","o","d","e">>, n |-> 0, groupindex |-> <<>>, re |->
     Cat(<<Lit(<<"f","u","l","l">>), Rep(In({" ","-",".","_"}), 1, -1), Lit(<<"e","p","i","s","o","d","e">>)>>)],
  [name |-> "All Episode", label |-> <<"A","l","l"," ","E","p","i","s","o","d","e">>, n |-> 0, groupindex |-> <<>>, re |->
     Cat(<<Lit(<<"a","l","l">>), Rep(In({" ","-",".","_"}), 1, -1), Lit(<<"e","p","i","s","o","d","e">>)>>)],
  [name |-> "Special Episode", label |-> <<"S","p","e","c","i","a","l"," ","E","p","i","s","o","d","e">>, n |-> 0, groupindex |-> <<>>, re |->
     Cat(<<Lit(<<"s","p","e","c","i","a","l">>), Rep(In({" ","-",".","_"}), 1, -1), Lit(<<"e","p","i","s","o","d","e">>)>>)],
  [name |-> "Bonus Episode", label |-> <<"B","o","n","u","s"," ","E","p","i","s","o","d","e">>, n |-> 0, groupindex |-> <<>>, re |->
     Cat(<<Lit(<<"b","o","n","u","s">>), Rep(In({" ","-",".","_"}), 1, -1), Lit(<<"e","p","i","s","o","d","e">>)>>)],
  [name |-> "Pilot Episode", label |-> <<"P","i","l","o","t"," ","E","p","i","s","o","d","e">>, n |-> 0, groupindex |-> <<>>, re |->
     Cat(<<Lit(<<"p","i","l","o","t">>), Rep(In({" ","-",".","_"}), 1, -1), Lit(<<"e","p","i","s","o","d","e">>)>>)],
  [name |-> "Final Episode", label |-> <<"F","i","n","a","l"," ","E","p","i","s","o","d","e">>, n |-> 0, groupindex |-> <<>>, re |->
     Cat(<<Lit(<<"f","i","n","a","l">>), Rep(In({" ","-",".","_"}), 1, -1), Lit(<<"e","p","i","s","o","d","e">>)>>)],
  [name |-> "Premiere Episode", label |-> <<"P","r","e","m","i","e","r","e"," ","E","p","i","s","o","d","e">>, n |-> 0, groupindex |-> <<>>, re |->
     Cat(<<Lit(<<"p","r","e","m","i","e","r","e">>), Rep(In({" ","-",".","_"}), 1, -1), Lit(<<"e","p","i","s","o","d","e">>)>>)],
  [name |-> "Season Finale", label |-> <<"S","e","a","s","o","n"," ","F","i","n","a","l","e">>, n |-> 0, groupindex |-> <<>>, re |->
     Cat(<<Lit(<<"s","e","a","s","o","n">>), Rep(In({" ","-",".","_"}), 1, -1), Lit(<<"f","i","n","a","l","e">>)>>)],
  [name |-> "Series Finale", label |-> <<"S","e","r","i","e","s"," ","F","i","n","a","l","e">>, n |-> 0, groupindex |-> <<>>, re |->
     Cat(<<Lit(<<"s","e","r","i","e","s">>), Rep(In({" ","-",".","_"}), 1, -1), Lit(<<"f","i","n","a","l","e">>)>>)],
  [name |-> "Part #", label |-> <<"P","a","r","t"," ","#">>, n |-> 1, groupindex |-> <<>>, re |->
     Cat(<<Lit(<<"p","a","r","t">>), Rep(In(SPACE), 1, -1), Grp(1, Rep(In(DIGIT), 1, -1))>>)],
  [name |-> "Part ##", label |-> <<"P","a","r","t"," ","#","#">>, n |-> 1, groupindex |-> <<>>, re |->
     Cat(<<Lit(<<"p","a","r","t">>), Rep(In(SPACE), 1, -1), Grp(1, Rep(In(DIGIT), 2, 2))>>)],
  [name |-> "Part # & #", label |-> <<"P","a","r","t"," ","#"," ","&"," ","#">>, n |-> 2, groupindex |-> <<>>, re |->
     Cat(<<Lit(<<"p","a","r","t">>), Rep(In(SPACE), 1, -1), Grp(1, Rep(In(DIGIT), 1, -1)), Rep(In(SPACE), 0, -1), Lit(<<"&">>), Rep(In(SPACE), 0, -1), Grp(2, Rep(In(DIGIT), 1, -1))>>)],
  [name |-> "Part ## & ##", label |-> <<"P","a","r","t"," ","#","#"," ","&"," ","#","#">>, n |-> 2, groupindex |-> <<>>, re |->
     Cat(<<Lit(<<"p","a","r","t">>), Rep(In(SPACE), 1, -1), Grp(1, Rep(In(DIGIT), 2, 2)), Rep(In(SPACE), 0, -1), Lit(<<"&">>), Rep(In(SPACE), 0, -1), Grp(2, Rep(In(DIGIT), 2, 2))>>)],
  [name |-> "Chapters #-#", label |-> <<"C","h","a","p","t","e","r","s"," ","#","-","#">>, n |-> 2, groupindex |-> <<>>, re |->
     Cat(<<Lit(<<"c","h","a","p","t","e","r","s">>), Rep(In(SPACE), 1, -1), Grp(1, Rep(In(DIGIT), 1, -1)), Lit(<<"-">>), Grp(2, Rep(In(DIGIT), 1, -1))>>)],
  [name |-> "Chapters ##-##", label |-> <<"C","h","a","p","t","e","r","s"," ","#","#","-","#","#">>, n |-> 2, groupindex |-> <<>>, re |->
     Cat(<<Lit(<<"c","h","a","p","t","e","r","s">>), Rep(In(SPACE), 1, -1), Grp(1, Rep(In(DIGIT), 2, 2)), Lit(<<"-">>), Grp(2, Rep(In(DIGIT), 2, 2))>>)],
  [name |-> "Absolute ##", label |-> <<"A","b","s","o","l","u","t","e"," ","#","#">>, n |-> 1, groupindex |-> <<>>, re |->
     Cat(<<WordB, Grp(1, Rep(In(DIGIT), 2, 3)), WordB, NotAhead(Cat(<<Rep(In(SPACE), 0, -1), Alt(<<Lit(<<"p">>), Lit(<<"i">>), Lit(<<"g","b">>), Lit(<<"m","b">>), Lit(<<"k","b","p","s">>), Lit(<<"M","b","p","s">>)>>)>>))>>)],
  [name |-> "Absolute ###", label |-> <<"A","b","s","o","l","u","t","e"," ","#","#","#">>, n |-> 1, groupindex |-> <<>>, re |->
     Cat(<<WordB, Grp(1, Rep(In(DIGIT), 3, 4)), WordB, NotAhead(Cat(<<Rep(In(SPACE), 0, -1), Alt(<<Lit(<<"p">>), Lit(<<"i">>), Lit(<<"g","b">>), Lit(<<"m","b">>), Lit(<<"k","b","p","s">>), Lit(<<"M","b","p","s">>)>>)>>))>>)],
  [name |-> "YYYY-MM-DD", label |-> <<"Y","Y","Y","Y","-","M","M","-","D","D">>, n |-> 3, groupindex |-> <<>>, re |->
     Cat(<<Grp(1, Alt(<<Lit(<<"1","9">>), Lit(<<"2","0">>)>>)), Rep(In(DIGIT), 2, 2), In({" ","-",".","_"}), Grp(2, Alt(<<Cat(<<Lit(<<"0">>), In({"1","2","3","4","5","6","7","8","9"})>>), Cat(<<Lit(<<"1">>), In({"0","1","2"})>>)>>)), In({" ","-",".","_"}), Grp(3, Alt(<<Cat(<<Lit(<<"0">>), In({"1","2","3","4","5","6","7","8","9"})>>), Cat(<<In({"1","2"}), In(DIGIT)>>), Cat(<<Lit(<<"3">>), In({"0","1"})>>)>>)), WordB>>)],
  [name |-> "YYYY.MM.DD", label |-> <<"Y","Y","Y","Y",".","M","M",".","D","D">>, n |-> 3, groupindex |-> <<>>, re |->
     Cat(<<Grp(1, Alt(<<Lit(<<"1","9">>), Lit(<<"2","0">>)>>)), Rep(In(DIGIT), 2, 2), Lit(<<".">>), Grp(2, Alt(<<Cat(<<Lit(<<"0">>), In({"1","2","3","4","5","6","7","8","9"})>>), Cat(<<Lit(<<"1">>), In({"0","1","2"})>>)>>)), Lit(<<".">>), Grp(3, Alt(<<Cat(<<Lit(<<"0">>), In({"1","2","3","4","5","6","7","8","9"})>>), Cat(<<In({"1","2"}), In(DIGIT)>>), Cat(<<Lit(<<"3">>), In({"0","1"})>>)>>)), WordB>>)],
  [name |-> "DD-MM-YYYY", label |-> <<"D","D","-","M","M","-","Y","Y","Y","Y">>, n |-> 3, groupindex |-> <<>>, re |->
     Cat(<<Grp(1, Alt(<<Cat(<<Lit(<<"0">>), In({"1","2","3","4","5","6","7","8","9"})>>), Cat(<<In({"1","2"}), In(DIGIT)>>), Cat(<<Lit(<<"3">>), In({"0","1"})>>)>>)), In({" ","-",".","_"}), Grp(2, Alt(<<Cat(<<Lit(<<"0">>), In({"1","2","3","4","5","6","7","8","9"})>>), Cat(<<Lit(<<"1">>), In({"0","1","2"})>>)>>)), In({" ","-",".","_"}), Grp(3, Alt(<<Lit(<<"1","9">>), Lit(<<"2","0">>)>>)), Rep(In(DIGIT), 2, 2), WordB>>)],
  [name |-> "MM-DD-YYYY", label |-> <<"M","M","-","D","D","-","Y","Y","Y","Y">>, n |-> 3, groupindex |-> <<>>, re |->
     Cat(<<Grp(1, Alt(<<Cat(<<Lit(<<"0">>), In({"1","2","3","4","5","6","7","8","9"})>>), Cat(<<Lit(<<"1">>), In({"0","1","2"})>>)>>)), In({" ","-",".","_"}), Grp(2, Alt(<<Cat(<<Lit(<<"0">>), In({"1","2","3","4","5","6","7","8","9"})>>), Cat(<<In({"1","2"}), In(DIGIT)>>), Cat(<<Lit(<<"3">>), In({"0","1"})>>)>>)), In({" ","-",".","_"}), Grp(3, Alt(<<Lit(<<"1","9">>), Lit(<<"2","0">>)>>)), Rep(In(DIGIT), 2, 2), WordB>>)],
  [name |-> "YYYYMMDD", label |-> <<"Y","Y","Y","Y","M","M","D","D">>, n |-> 3, groupindex |-> <<>>, re |->
     Cat(<<Grp(1, Alt(<<Lit(<<"1","9">>), Lit(<<"2","0">>)>>)), Rep(In(DIGIT), 2, 2), Grp(2, Alt(<<Cat(<<Lit(<<"0">>), In({"1","2","3","4","5","6","7","8","9"})>>), Cat(<<Lit(<<"1">>), In({"0","1","2"})>>)>>)), Grp(3, Alt(<<Cat(<<Lit(<<"0">>), In({"1","2","3","4","5","6","7","8","9"})>>), Cat(<<In({"1","2"}), In(DIGIT)>>), Cat(<<Lit(<<"3">>), In({"0","1"})>>)>>)), WordB>>)],
  [name |-> "E###", label |-> <<"E","#","#","#">>, n |-> 1, groupindex |-> <<>>, re |->
     Cat(<<Lit(<<"e">>), Grp(1, Rep(In(DIGIT), 3, 3))>>)],
  [name |-> "EP###", label |-> <<"E","P","#","#","#">>, n |-> 1, groupindex |-> <<>>, re |->
     Cat(<<Lit(<<"e","p">>), Grp(1, Rep(In(DIGIT), 3, 3))>>)],
  [name |-> "Split E#", label |-> <<"S","p","l","i","t"," ","E","#">>, n |-> 2, groupindex |-> <<>>, re |->
     Cat(<<Lit(<<"e">>), Grp(1, Rep(In(DIGIT), 1, -1)), Grp(2, In({"A","B","C","D","a","b","c","d"}))>>)],
  [name |-> "Part One", label |-> <<"P","a","r","t"," ","O","n","e">>, n |-> 1, groupindex |-> <<>>, re |->
     Cat(<<Lit(<<"p","a","r","t">>), Rep(In(SPACE), 1, -1), Grp(1, Alt(<<Lit(<<"o","n","e">>), Lit(<<"t","w","o">>), Lit(<<"t","h","r","e","e">>), Lit(<<"f","o","u","r">>), Lit(<<"f","i","v","e">>), Lit(<<"s","i","x">>), Lit(<<"s","e","v","e","n">>), Lit(<<"e","i","g","h","t">>), Lit(<<"n","i","n","e">>)>>))>>)],
  [name |-> "XofY", label |-> <<"X","o","f","Y">>, n |-> 1, groupindex |-> <<>>, re |->
     Cat(<<Grp(1, Rep(In(DIGIT), 1, -1)), Rep(In(SPACE), 0, -1), Lit(<<"o","f">>), Rep(In(SPACE), 0, -1), Rep(In(DIGIT), 1, -1)>>)],
  [name |-> "E####", label |-> <<"E","#","#","#","#">>, n |-> 1, groupindex |-> <<>>, re |->
     Cat(<<Lit(<<"e">>), Grp(1, Rep(In(DIGIT), 4, 4))>>)],
  [name |-> "EP####", label |-> <<"E","P","#","#","#","#">>, n |-> 1, groupindex |-> <<>>, re |->
     Cat(<<Lit(<<"e","p">>), Grp(1, Rep(In(DIGIT), 4, 4))>>)],
  [name |-> "Bolum #", label |-> <<"B","o","l","u","m"," ","#">>, n |-> 1, groupindex |-> <<>>, re |->
     Cat(<<Lit(<<"b","o","l","u","m">>), Rep(In(SPACE), 1, -1), Grp(1, Rep(In(DIGIT), 1, -1))>>)],
  [name |-> "BLM #", label |-> <<"B","L","M"," ","#">>, n |-> 1, groupindex |-> <<>>, re |->
     Cat(<<Lit(<<"b","l","m">>), Rep(In(SPACE), 1, -1), Grp(1, Rep(In(DIGIT), 1, -1))>>)],
  [name |-> "Single E#", label |-> <<"S","i","n","g","l","e"," ","E","#">>, n |-> 1, groupindex |-> <<>>, re |->
     Cat(<<NotBehind(DIGIT \cup {"X","x"}), Lit(<<"e">>), Alt(<<Cat(<<>>), Lit(<<"p">>)>>), Grp(1, Rep(In(DIGIT), 1, 1)), NotAhead(In(DIGIT))>>)]
>>

\* the loop of parse_episode names the first component of an entry
\* pattern_name and the second pattern; every entry is (regex, None)
special_episode_patterns == <<
  [pattern_name |-> Cat(<<Lit(<<".","S">>), Rep(In(DIGIT), 1, -1), Lit(<<"E","0","0",".">>), Grp(1, RepLazy(NotIn({"\n"}), 1, -1)), Alt(<<Cat(<<Lit(<<".">>), Alt(<<Lit(<<"7","2","0","p">>), Lit(<<"1","0","8","0","p">>), Lit(<<"2","1","6","0","p">>), Lit(<<"H","D","T","V">>), Lit(<<"W","E","B">>), Lit(<<"W","E","B","R","i","p">>), Lit(<<"W","E","B","-","D","L">>)>>), Lit(<<".">>)>>), Eol>>)>>),
   pattern |-> None],
  [pattern_name |-> Cat(<<Lit(<<".","S">>), Rep(In(DIGIT), 1, -1), Lit(<<".","S","p","e","c","i","a","l",".">>), Grp(1, RepLazy(NotIn({"\n"}), 1, -1)), Alt(<<Cat(<<Lit(<<".">>), Alt(<<Lit(<<"7","2","0","p">>), Lit(<<"1","0","8","0","p">>), Lit(<<"2","1","6","0","p">>), Lit(<<"H","D","T","V">>), Lit(<<"W","E","B">>), Lit(<<"W","E","B","R","i","p">>), Lit(<<"W","E","B","-","D","L">>)>>), Lit(<<".">>)>>), Eol>>)>>),
   pattern |-> None],
  [pattern_name |-> Cat(<<WordB, Alt(<<Lit(<<"s","p","e","c","i","a","l">>), Lit(<<"o","v","a">>), Lit(<<"o","v","d">>), Lit(<<"o","a","v">>), Lit(<<"b","o","n","u","s">>), Lit(<<"e","x","t","r","a">>), Lit(<<"s","p","e","c","i","a","l","e">>)>>), WordB>>),
   pattern |-> None]
>>

complete_patterns == {"Complete Episodes", "All Episodes", "Full Episode", "All Episode",
                      "Special Episode", "Bonus Episode", "Pilot Episode", "Final Episode",
                      "Premiere Episode", "Season Finale", "Series Finale"}

range_patterns == <<
  <<"Episodes # - #", 15>>,
  <<"Episodes ## - ##", 15>>,
  <<"Episodes #-#", 15>>,
  <<"Episodes ##-##", 15>>,
  <<"Episodes # to #", 15>>,
  <<"Episodes ## to ##", 15>>,
  <<"Episode #-#", 10>>,
  <<"Episode # - #", 10>>,
  <<"Episode ## - ##", 10>>,
  <<"Episode ##-##", 10>>,
  <<"EP #-#", 8>>,
  <<"EP ##-##", 8>>,
  <<"EP (##-##)", 8>>,
  <<"EP#-#", 8>>,
  <<"EP##-##", 8>>,
  <<"E#-#", 8>>,
  <<"E##-##", 8>>,
  <<"E#E#", 8>>,
  <<"E##E##", 8>>,
  <<"Ep # to #", 6>>,
  <<"Ep ## to ##", 6>>,
  <<"E# to E#", 6>>,
  <<"E## to E##", 6>>
>>

episode_count_patterns == <<
  <<"## episodes", 5>>
>>

date_patterns == <<
  Cat(<<Grp(1, Alt(<<Lit(<<"1","9">>), Lit(<<"2","0">>)>>)), Rep(In(DIGIT), 2, 2), In({" ","-",".","_"}), Grp(2, Alt(<<Cat(<<Lit(<<"0">>), In({"1","2","3","4","5","6","7","8","9"})>>), Cat(<<Lit(<<"1">>), In({"0","1","2"})>>)>>)), In({" ","-",".","_"}), Grp(3, Alt(<<Cat(<<Lit(<<"0">>), In({"1","2","3","4","5","6","7","8","9"})>>), Cat(<<In({"1","2"}), In(DIGIT)>>), Cat(<<Lit(<<"3">>), In({"0","1"})>>)>>))>>),
  Cat(<<Grp(1, Alt(<<Cat(<<Lit(<<"0">>), In({"1","2","3","4","5","6","7","8","9"})>>), Cat(<<In({"1","2"}), In(DIGIT)>>), Cat(<<Lit(<<"3">>), In({"0","1"})>>)>>)), In({" ","-",".","_"}), Grp(2, Alt(<<Cat(<<Lit(<<"0">>), In({"1","2","3","4","5","6","7","8","9"})>>), Cat(<<Lit(<<"1">>), In({"0","1","2"})>>)>>)), In({" ","-",".","_"}), Grp(3, Alt(<<Lit(<<"1","9">>), Lit(<<"2","0">>)>>)), Rep(In(DIGIT), 2, 2)>>),
  Cat(<<Grp(1, Alt(<<Cat(<<Lit(<<"0">>), In({"1","2","3","4","5","6","7","8","9"})>>), Cat(<<Lit(<<"1">>), In({"0","1","2"})>>)>>)), In({" ","-",".","_"}), Grp(2, Alt(<<Cat(<<Lit(<<"0">>), In({"1","2","3","4","5","6","7","8","9"})>>), Cat(<<In({"1","2"}), In(DIGIT)>>), Cat(<<Lit(<<"3">>), In({"0","1"})>>)>>)), In({" ","-",".","_"}), Grp(3, Alt(<<Lit(<<"1","9">>), Lit(<<"2","0">>)>>)), Rep(In(DIGIT), 2, 2)>>)
>>

\* s[a:b] with 0 <= a and b <= len(s), and match.start(n)
slice(s, a, b) == SubSeq(s, a + 1, b)
start_of(m, n) == m.g[n][1] - 1

\* any(indicator in context for indicator in indicators)
AnyIn(indicators, context) == \E k \in 1..Len(indicators) : contains(context, indicators[k])
\* text.endswith((a, b, ...)) and text.startswith((a, b, ...))
EndsWithAny(text, suffixes) == \E k \in 1..Len(suffixes) : endswith(text, suffixes[k])
StartsWithAny(text, prefixes) == \E k \in 1..Len(prefixes) : startswith(text, prefixes[k])

\* a heuristic that looks at the numbers only and never at the text around
\* them, which _is_likely_year_range must differ from
YearsByNumbersOnly(num1, num2, position, normalized_title, now) ==
  \/ /\ Len(num1) = 4 /\ Len(num2) = 4 /\ isdigit(num1) /\ isdigit(num2)
     /\ PlausibleYear(num1, now) /\ PlausibleYear(num2, now)
  \/ \A num \in {num1, num2} : match(Cat(<<Bol, Grp(1, Alt(<<LitCS(<<"1","9">>), LitCS(<<"2","0">>)>>)), Rep(In(DIGIT), 2, 2), Eol>>), num) # NoMatch

\* _is_likely_year_range at a moment when datetime.now().year is now
_is_likely_year_range(num1, num2, position, normalized_title, now) ==
  IF /\ Len(num1) = 4 /\ Len(num2) = 4 /\ isdigit(num1) /\ isdigit(num2)
     /\ PlausibleYear(num1, now) /\ PlausibleYear(num2, now)
  THEN TRUE
  ELSE IF \A num \in {num1, num2} : match(Cat(<<Bol, Grp(1, Alt(<<LitCS(<<"1","9">>), LitCS(<<"2","0">>)>>)), Rep(In(DIGIT), 2, 2), Eol>>), num) # NoMatch
  THEN TRUE
  ELSE IF Len(num1) < 3 \/ Len(num2) < 3 THEN FALSE
  ELSE IF AnyIn(<<<<"y","e","a","r">>, <<"a","i","r","e","d">>, <<"r","e","l","e","a","s","e","d">>, <<"b","r","o","a","d","c","a","s","t">>, <<"U+00A9">>, <<"(","c",")">>>>,
                \* context = normalized_title[context_start:context_end].lower()
                lower(slice(normalized_title, max({0, position - 20}),
                            min({Len(normalized_title),
                                 position + Len(num1) + Len(num2) + 20}))))
  THEN TRUE
  ELSE FALSE

_is_in_audio_context(number, position, normalized_title) ==
  AnyIn(<<<<"a","a","c">>, <<"a","c">>, <<"d","d">>, <<"d","d","p">>, <<"e","a","c">>, <<"d","t","s">>, <<"t","r","u","e","h","d">>, <<"a","t","m","o","s">>,
          <<"5",".","1">>, <<"7",".","1">>, <<"2",".","0">>>>,
        \* context = normalized_title[context_start:context_end].lower()
        lower(slice(normalized_title, max({0, position - 10}),
                    min({Len(normalized_title), position + Len(number) + 10}))))

_is_likely_season_context(number, position, normalized_title) ==
  \E context \in {lower(slice(normalized_title, max({0, position - 20}),
                              min({Len(normalized_title), position + Len(number) + 20})))} :
  \E has_season_indicator \in
       {AnyIn(<<<<"s","e","a","s","o","n">>, <<"s","a","i","s","o","n">>, <<"t","e","m","p","o","r","a","d","a">>, <<"s","t","a","g","i","o","n","e">>, <<"c","o","m","p","l","e","t","e">>,
                <<"f","u","l","l">>, <<"p","a","c","k">>>>, context)} :
  \E has_episode_indicator \in
       {AnyIn(<<<<"e","p","i","s","o","d","e">>, <<"e","p">>, <<"e">>, <<"c","h","a","p","t","e","r">>, <<"p","a","r","t">>, <<"e","p","s">>>>, context)} :
  \E has_false_positive \in
       {AnyIn(<<<<"g","b">>, <<"m","b">>, <<"m","o","v","i","e","s">>, <<"m","o","v","i","e">>, <<"c","o","l","l","e","c","t","i","o","n">>,
                <<"c","o","l","l","e","c","t","i","o","n","s">>, <<"s","i","z","e">>, <<"h","r">>, <<"m","i","n">>>>, context)} :
  \E preceding15 \in
       {strip(lower(slice(normalized_title, max({0, position - 15}), position)))} :
  \E preceding10 \in
       {strip(lower(slice(normalized_title, max({0, position - 10}), position)))} :
  \E following_text \in
       {lower(slice(normalized_title, position + Len(number),
                    min({Len(normalized_title), position + Len(number) + 10})))} :
     IF /\ has_episode_indicator
        /\ \/ EndsWithAny(preceding15, <<<<"e","p","i","s","o","d","e"," ">>, <<"e","p"," ">>, <<"e"," ">>, <<"e","p","i","s","o","d","e","s"," ">>>>)
           \/ contains(preceding15, <<"e","p","i","s","o","d","e"," ">>)
           \/ contains(preceding15, <<"e","p"," ">>)
           \/ contains(preceding15, <<"e","p","i","s","o","d","e","s"," ">>)
     THEN FALSE
     ELSE IF /\ has_season_indicator /\ ~ has_episode_indicator
             /\ \/ EndsWithAny(preceding10, <<<<"s","e","a","s","o","n"," ">>, <<"s","a","i","s","o","n"," ">>, <<"t","e","m","p","o","r","a","d","a"," ">>, <<"s","t","a","g","i","o","n","e"," ">>>>)
                \/ (endswith(preceding10, <<"s"," ">>)
                    /\ ~ EndsWithAny(preceding10, <<<<"e","p","s"," ">>, <<"e","p"," ">>>>))
     THEN TRUE
     ELSE IF has_false_positive /\ ~ has_episode_indicator THEN TRUE
     ELSE IF /\ position > 0
             /\ \/ EndsWithAny(preceding10, <<<<"s","e","a","s","o","n">>, <<"s","a","i","s","o","n">>, <<"t","e","m","p","o","r","a","d","a">>, <<"s","t","a","g","i","o","n","e">>>>)
                \/ (endswith(preceding10, <<"s">>) /\ ~ EndsWithAny(preceding10, <<<<"e","p","s">>, <<"e","p">>>>))
     THEN TRUE
     ELSE IF /\ position > 0
             /\ StartsWithAny(following_text, <<<<".","g","b">>, <<"g","b">>, <<".","m","b">>, <<"m","b">>, <<"m","o","v","i","e","s">>, <<"m","o","v","i","e">>>>)
     THEN TRUE
     ELSE FALSE

\* the numbers parse_episode takes for years, resolutions, sizes and codecs
episode_exclude_numbers(normalized_title) ==
  \* years, resolutions, audio_numbers
  ToSet(findall1(Cat(<<WordB, Grp(1, Alt(<<Cat(<<LitCS(<<"1","9">>), Rep(In(DIGIT), 2, 2)>>), Cat(<<LitCS(<<"2","0">>), Rep(In(DIGIT), 2, 2)>>)>>)), WordB>>), normalized_title))
    \cup ToSet(findall1(Cat(<<WordB, Grp(1, Alt(<<Lit(<<"3","6","0">>), Lit(<<"4","8","0">>), Lit(<<"7","2","0">>), Lit(<<"1","0","8","0">>), Lit(<<"1","4","4","0">>), Lit(<<"2","1","6","0">>), Lit(<<"4","K">>)>>)), Rep(Lit(<<"p">>), 0, 1), WordB>>), normalized_title))
    \cup ToSet(findall1(Cat(<<Alt(<<Lit(<<"A","A","C">>), Lit(<<"A","C">>), Lit(<<"D","D">>), Lit(<<"D","D","P">>), Lit(<<"E","A","C">>)>>), Grp(1, Cat(<<Rep(In(DIGIT), 1, -1), Rep(Lit(<<".">>), 0, 1), Rep(In(DIGIT), 0, -1)>>))>>), normalized_title))
    \* the number in each file size
    \cup {group(size, search(Grp(1, Cat(<<Rep(In(DIGIT), 1, -1), Rep(LitCS(<<".">>), 0, 1), Rep(In(DIGIT), 0, -1)>>)), size), 1) :
            size \in ToSet(findall0(Cat(<<WordB, Rep(In(DIGIT), 1, -1), Rep(Lit(<<".">>), 0, 1), Rep(In(DIGIT), 0, -1), In({"G","K","M","g","k","m"}), Lit(<<"B">>), WordB>>), normalized_title))}
    \* the first number in each video or audio codec that has one
    \cup {group(codec[2], codec[1], 1) :
            codec \in {c \in {<<search(Grp(1, Rep(In(DIGIT), 1, -1)), name), name>> :
                               name \in ToSet(findall1(Cat(<<WordB, Grp(1, Alt(<<Lit(<<"H","E","V","C">>), Lit(<<"A","V","C">>), Lit(<<"A","V","1">>), Lit(<<"X","v","i","D">>), Lit(<<"D","i","v","X">>), Lit(<<"V","P","9">>), Lit(<<"h","2","6","4">>), Lit(<<"h","2","6","5">>)>>)), WordB>>), normalized_title))
                                        \cup ToSet(findall1(Cat(<<WordB, Grp(1, Alt(<<Lit(<<"A","A","C">>), Lit(<<"A","C","3">>), Lit(<<"D","T","S">>), Lit(<<"D","D","P">>), Lit(<<"E","A","C","3">>), Lit(<<"T","r","u","e","H","D">>), Lit(<<"A","t","m","o","s">>), Lit(<<"M","P","3">>), Lit(<<"F","L","A","C">>), Lit(<<"O","p","u","s">>), Lit(<<"P","C","M">>), Lit(<<"V","o","r","b","i","s">>)>>)), WordB>>), normalized_title))} :
                         c[1] # NoMatch}}

\* key in d, for a dict kept as <<key, value>> pairs
HasKey(d, key) == \E k \in 1..Len(d) : d[k][1] = key

part_map == << <<<<"o","n","e">>, 1>>, <<<<"t","w","o">>, 2>>, <<<<"t","h","r","e","e">>, 3>>, <<<<"f","o","u","r">>, 4>>, <<<<"f","i","v","e">>, 5>>,
               <<<<"s","i","x">>, 6>>, <<<<"s","e","v","e","n">>, 7>>, <<<<"e","i","g","h","t">>, 8>>, <<<<"n","i","n","e">>, 9>> >>

\* potential_matches[match_key] = (match.group(0), priority) when the key is
\* new or the priority higher
EpisodeUpsert(st, match_key, text, priority) ==
  With([key |-> match_key, text |-> text, priority |-> priority], LAMBDA entry :
    With({k \in 1..Len(st.potential_matches) : st.potential_matches[k].key = match_key},
         LAMBDA at :
           IF at = {} THEN [st EXCEPT !.potential_matches = Append(@, entry)]
           ELSE IF priority > st.potential_matches[min(at)].priority
           THEN [st EXCEPT !.potential_matches[min(at)] = entry]
           ELSE st))

\* episode_matches.append(text)
EpisodeAppend(st, text) == [st EXCEPT !.episode_matches = Append(@, text)]

\* One pass of the body of the loop "for match in matches" of parse_episode,
\* for the match m of the entry e; st holds episode_matches and
\* potential_matches.
EpisodeStep(st, e, m, ctx) ==
  LET g1 == group(ctx.title, m, 1)
      g2 == group(ctx.title, m, 2)
      g3 == group(ctx.title, m, 3)
      is_episode_pattern ==
        \/ HasKey(range_patterns, e.name)
        \/ HasKey(episode_count_patterns, e.name)
        \/ contains(lower(e.label), <<"e","p","i","s","o","d","e">>)
        \/ contains(lower(e.label), <<"e","p">>)
  IN IF is_episode_pattern /\ HasKey(episode_count_patterns, e.name) THEN
       IF g1 \in ctx.season_numbers THEN st
       ELSE IF g1 \notin ctx.exclude /\ isdigit(g1) /\ 1 <= int(g1) /\ int(g1) <= 200
       THEN EpisodeUpsert(st, <<"E","1","-","E">> \o str(int(g1)), group0(ctx.title, m),
                          get(episode_count_patterns, e.name, 0))
       ELSE st
     ELSE IF is_episode_pattern /\ HasKey(range_patterns, e.name) THEN
       IF e.n < 2 THEN st
       ELSE IF _is_likely_year_range(g1, g2, start_of(m, 1), ctx.title, ctx.now) THEN st
       ELSE IF g1 \in ctx.exclude \/ g2 \in ctx.exclude THEN st
       ELSE IF /\ isdigit(g1) /\ isdigit(g2) /\ int(g1) <= 200 /\ int(g2) <= 200
               /\ int(g1) > 0 /\ int(g2) > 0
       THEN EpisodeUpsert(st, <<"E">> \o zfill(g1, 2) \o <<"-","E">> \o zfill(g2, 2),
                          group0(ctx.title, m), get(range_patterns, e.name, 0))
       ELSE st
     ELSE IF e.n > 0 /\ g1 # <<>> /\ _is_likely_season_context(g1, start_of(m, 1), ctx.title)
     THEN st
     ELSE IF e.name = "Split E#" THEN
       IF g1 \notin ctx.exclude THEN EpisodeAppend(st, <<"E">> \o g1 \o g2) ELSE st
     ELSE IF e.name = "Part One" THEN
       IF HasKey(part_map, lower(g1))
       THEN EpisodeAppend(st, <<"P","a","r","t">> \o str(get(part_map, lower(g1), 0))) ELSE st
     ELSE IF e.name = "XofY" THEN
       IF g1 \notin ctx.exclude THEN EpisodeAppend(st, <<"E">> \o g1) ELSE st
     ELSE IF e.n = 1 THEN
       IF /\ g1 \notin ctx.exclude /\ isdigit(g1) /\ int(g1) <= 200
          /\ ~ _is_in_audio_context(g1, start_of(m, 1), ctx.title)
       THEN EpisodeAppend(st, <<"E">> \o zfill(g1, 2)) ELSE st
     ELSE IF e.n = 2 THEN
       IF /\ ~ HasKey(range_patterns, e.name)
          /\ g1 \notin ctx.exclude /\ g2 \notin ctx.exclude
          /\ isdigit(g1) /\ isdigit(g2) /\ int(g1) <= 200 /\ int(g2) <= 200
       THEN EpisodeAppend(st, <<"E">> \o zfill(g1, 2) \o <<"-","E">> \o zfill(g2, 2)) ELSE st
     ELSE IF e.n = 3 THEN
       IF /\ ~ HasKey(range_patterns, e.name)
          /\ g2 \notin ctx.exclude /\ g3 \notin ctx.exclude
          /\ isdigit(g2) /\ isdigit(g3) /\ int(g2) <= 200 /\ int(g3) <= 200
       THEN EpisodeAppend(st, <<"E">> \o zfill(g2, 2) \o <<"-","E">> \o zfill(g3, 2)) ELSE st
     ELSE IF startswith(e.label, <<"A","b","s","o","l","u","t","e">>) THEN
       IF /\ g1 \notin ctx.exclude /\ isdigit(g1) /\ int(g1) <= 2000
          /\ ~ _is_in_audio_context(g1, start_of(m, 1), ctx.title)
          /\ st.potential_matches = <<>>
       THEN EpisodeAppend(st, <<"A","b","s">> \o zfill(g1, 3)) ELSE st
     ELSE st

\* inner loop of the second part of parse_episode: the matches ms[j..] of e
RECURSIVE EpisodeMatchesFrom(_, _, _, _, _)
EpisodeMatchesFrom(st, e, ms, j, ctx) ==
  IF j > Len(ms) THEN st
  ELSE EpisodeMatchesFrom(EpisodeStep(st, e, ms[j], ctx), e, ms, j + 1, ctx)

\* outer loop: the entries from index i on that are no complete pattern
RECURSIVE EpisodePatternsFrom(_, _, _)
EpisodePatternsFrom(st, i, ctx) ==
  With({j \in i..Len(ctx.patterns) :
          /\ ctx.patterns[j].name \notin complete_patterns
          /\ search(ctx.patterns[j].re, ctx.title) # NoMatch}, LAMBDA hits :
    IF hits = {} THEN st
    ELSE EpisodePatternsFrom(
           EpisodeMatchesFrom(st, ctx.patterns[min(hits)],
                              finditer(ctx.patterns[min(hits)].re, ctx.title), 1, ctx),
           min(hits) + 1, ctx))

\* sorted(items, key=priority, reverse=True): stable
SortedByPriority(pm) ==
  LET rank(k) == Cardinality({j \in 1..Len(pm) :
                                \/ pm[j].priority > pm[k].priority
                                \/ (pm[j].priority = pm[k].priority /\ j < k)})
  IN [r \in 1..Len(pm) |-> pm[CHOOSE k \in 1..Len(pm) : rank(k) = r - 1]]

\* the "Date:..." entries of one date pattern
DatesOf(date_pattern, normalized_title) ==
  With(finditer(date_pattern, normalized_title), LAMBDA ms :
    [k \in 1..Len(ms) |->
       <<"D","a","t","e",":">> \o group(normalized_title, ms[k], 1) \o <<"-">>
                \o group(normalized_title, ms[k], 2) \o <<"-">>
                \o group(normalized_title, ms[k], 3)])

\* the episode extractor on a normalised title whose season extractor gave
\* season_info, at a moment when datetime.now().year is now
\* a scan that never takes the early return, which the one of parse_episode
\* must differ from
NeverFound(complete) == FALSE

\* found_complete_pattern after the loop over the phrase patterns, complete
\* being the indexes of those that matched
found_complete_pattern(complete) == complete # <<>>

episode_of(normalized_title, season_info, now) ==
  With(episode_patterns, LAMBDA patterns :
  \* one "Special" for each special pattern that is set and matches
  With(With(special_episode_patterns, LAMBDA sp :
         [k \in 1..Cardinality({j \in 1..Len(sp) :
                                  /\ sp[j].pattern # None
                                  /\ search(sp[j].pattern, normalized_title) # NoMatch})
            |-> <<"S","p","e","c","i","a","l">>]), LAMBDA specials :
  With(Ascending({k \in 1..Len(patterns) :
                    /\ patterns[k].name \in complete_patterns
                    /\ search(patterns[k].re, normalized_title) # NoMatch}), LAMBDA complete :
    IF found_complete_pattern(complete)
    THEN join(<<","," ">>, specials \o [r \in 1..Len(complete) |-> patterns[complete[r]].label])
    ELSE With(EpisodePatternsFrom(
                [episode_matches |-> specials, potential_matches |-> <<>>], 1,
                [title |-> normalized_title,
                 patterns |-> patterns,
                 exclude |-> episode_exclude_numbers(normalized_title),
                 season_numbers |-> IF season_info = None THEN {}
                                    ELSE ToSet(findall1(Cat(<<LitCS(<<"S">>), Grp(1, Rep(In(DIGIT), 1, -1))>>), season_info)),
                 now |-> now]), LAMBDA st :
         With(SortedByPriority(st.potential_matches), LAMBDA sorted_matches :
           With(st.episode_matches
                  \o [k \in 1..Len(sorted_matches) |-> sorted_matches[k].key]
                  \o With(date_patterns, LAMBDA dates :
                       DatesOf(dates[1], normalized_title)
                         \o DatesOf(dates[2], normalized_title)
                         \o DatesOf(dates[3], normalized_title)),
                LAMBDA episode_matches :
                  IF episode_matches = <<>> THEN None
                  ELSE join(<<","," ">>, episode_matches)))))))

parse_episode(title, now) ==
  episode_of(_normalize_title(title), parse_season(title), now)

(***************************************************************************)
(* The whole parse, and the post-processing of its result.  A dict is a    *)
(* function from its keys, so the empty dict is <<>>.                      *)
(***************************************************************************)
\* a parse that pops no key, which the record of a movie must differ from
PopsNothing(content_type) == {}

\* a filter that keeps every value, which the one of parse must differ from
KeepsAll(v) == TRUE

\* the keys parse pops from the record of a title of this content type
PoppedKeys(content_type) == IF content_type = <<"m","o","v","i","e">> THEN {"season", "episode"} ELSE {}

\* "if v is not None", the filter of the dict comprehension that ends parse
IsNotNone(v) == v # None

\* parse from its dict literal on, for the season parse_season returned
Assemble(title, normalized_title, season, now) ==
       With(_detect_content_type(title, normalized_title), LAMBDA content_type :
       With(anime_info_of(normalized_title), LAMBDA anime_info :
       With(         [original_title |-> title,
                      normalized_title |-> normalized_title,
                      season |-> season,
                      episode |-> episode_of(normalized_title, season, now),
                      resolution |-> resolution_of(normalized_title),
                      video_codec |-> video_codec_of(normalized_title),
                      audio_codec |-> audio_codec_of(normalized_title),
                      language |-> language_of(normalized_title),
                      filesize |-> filesize_of(normalized_title),
                      filetype |-> filetype_of(normalized_title),
                      quality |-> quality_of(normalized_title),
                      year |-> year_of(normalized_title, now),
                      website |-> parse_website(title),
                      encoder |-> encoder_of(normalized_title),
                      group |-> group_of(normalized_title)],
            LAMBDA result :
              \* movies lose season and episode; the None values are filtered
              [k \in {key \in DOMAIN result \ PoppedKeys(content_type) :
                        IsNotNone(result[key])}
                       \cup {"content_type"}
                       \cup (IF anime_info # <<>> THEN {"anime_info"} ELSE {})
                 |-> IF k = "content_type" THEN content_type
                     ELSE IF k = "anime_info" THEN anime_info
                     ELSE result[k]])))

\* parse at a moment when datetime.now().year is now.  The title is
\* normalised once here; every extractor normalises it again in the code,
\* to the same text.  parse_anime_info gives None exactly for the empty
\* dict, which is how its key is filtered here.
parse(title, now) ==
  IF ~ _is_valid_title(title) THEN [error |-> <<"I","n","v","a","l","i","d"," ","t","i","t","l","e"," ","(","l","i","k","e","l","y"," ","h","a","s","h","e","d"," ","r","e","l","e","a","s","e",")">>]
  ELSE With(_normalize_title(title), LAMBDA normalized_title :
       With(SeasonOf(normalized_title), LAMBDA season :
         Assemble(title, normalized_title, season, now)))

\* a batch that leaves out the titles parse rejects, which parse_batch must
\* differ from
ValidOnly(titles, now) ==
  With(SelectSeq(titles, _is_valid_title), LAMBDA valid :
    [i \in 1..Len(valid) |-> parse(valid[i], now)])

\* [self.parse(title) for title in titles]
parse_batch(titles, now) == [i \in 1..Len(titles) |-> parse(titles[i], now)]

\* [v.strip() for v in field_value.split(",")]
StrippedValues(field_value) ==
  With(split(field_value, ","), LAMBDA parts : [k \in 1..Len(parts) |-> strip(parts[k])])

\* end - start of a value "E<a>-E<b>"; -1, the initial max_span, which no
\* other value can raise, for a value the loops pass over
Span(range_val) ==
  With(split(range_val, "-"), LAMBDA parts :
    IF /\ count(range_val, "-") = 1
       /\ Len(parts) = 2
       /\ startswith(parts[1], <<"E">>) /\ startswith(parts[2], <<"E">>)
       /\ isdigit(Tail(parts[1])) /\ isdigit(Tail(parts[2]))
    THEN int(Tail(parts[2])) - int(Tail(parts[1]))
    ELSE -1)

\* a choice by smallest count, which the frequency fallback must differ from
LeastFrequent(values, among) ==
  LET value_counts(x) == Cardinality({k \in 1..Len(values) : values[k] = x})
  IN {x \in among : \A y \in among : value_counts(x) <= value_counts(y)}

\* max(set(among), key=lambda x: value_counts[x]): the first element of the
\* set, in its iteration order, whose count is largest.  The order of a set
\* of strings changes from process to process (hash randomisation), so every
\* element of largest count is a possible value.
MostFrequent(values, among) ==
  LET value_counts(x) == Cardinality({k \in 1..Len(values) : values[k] = x})
  IN {x \in among : \A y \in among : value_counts(y) <= value_counts(x)}

\* The values _process_season_episode_field can return for field_value: the
\* loop over set(ranges) keeps the first range of largest span that it meets.
_process_season_episode_field(field_value) ==
  IF field_value = None \/ field_value = <<>> THEN {None}
  ELSE With(StrippedValues(field_value), LAMBDA values :
       With({v \in ToSet(values) : contains(v, <<"-">>)}, LAMBDA ranges :
       With({v \in ToSet(values) : ~ contains(v, <<"-">>)}, LAMBDA singles :
       With(max({-1} \cup {Span(r) : r \in ranges}), LAMBDA max_span :
         IF Len(values) = 1 THEN {values[1]}
         ELSE IF ranges # {}
         THEN IF max_span > 0 THEN {r \in ranges : Span(r) = max_span}
              ELSE MostFrequent(values, ranges)
         ELSE IF singles # {} THEN MostFrequent(values, singles)
         ELSE {None}))))

\* The values of processed["episode"]: the loop over the list ranges keeps
\* the first range of largest span.
ProcessedEpisode(episode_value) ==
  With(SelectSeq(StrippedValues(episode_value),
                 LAMBDA v : contains(v, <<"-">>) /\ startswith(v, <<"E">>)), LAMBDA ranges :
    With(max({-1} \cup {Span(ranges[k]) : k \in 1..Len(ranges)}), LAMBDA max_span :
      IF ranges # <<>> /\ max_span > 0
      THEN {ranges[min({k \in 1..Len(ranges) : Span(ranges[k]) = max_span})]}
      ELSE _process_season_episode_field(episode_value)))

\* The records post_process_result can return for result.
post_process_result(result) ==
  LET has(key) == key \in DOMAIN result
      fixed == {"INPUT", "normalized_title", "content_type", "season", "episode"}
  IN {[k \in fixed \cup (DOMAIN result \ {"original_title"}) |->
         CASE k = "INPUT" -> IF has("original_title") THEN result["original_title"] ELSE <<>>
           [] k = "normalized_title" ->
                IF has("normalized_title") THEN result["normalized_title"] ELSE <<>>
           [] k = "content_type" ->
                IF has("content_type") THEN result["content_type"] ELSE <<"s","e","r","i","e","s">>
           [] k = "season" -> s
           [] k = "episode" -> e
           [] OTHER -> result[k]] :
        s \in IF has("season") /\ result["season"] # <<>> /\ result["season"] # None
              THEN _process_season_episode_field(result["season"])
              ELSE {None},
        e \in IF has("episode") /\ result["episode"] # <<>> /\ result["episode"] # None
              THEN ProcessedEpisode(result["episode"])
              ELSE {None}}

(***************************************************************************)
(* The state machine.  A caller takes a title, calls parse on it and hands *)
(* the record to post_process_result, as main does for each of its titles; *)
(* it may call either again, and the calendar year may change in between.  *)
(***************************************************************************)
VARIABLES
  title,      \* the title the caller works on
  now,        \* datetime.now().year
  pc,         \* "start", "parsed" (result holds a record), "processed"
  result,     \* what parse returned last
  processed,  \* what post_process_result returned last
  parser,     \* the attributes of the TorrentParser instance the callers share
  calls,      \* the frame of the parse call of each concurrent caller
  titles,     \* the argument of parse_batch
  results,    \* what parse_batch returned
  potential_matches,  \* the candidate map of a parse_season call in progress
  candidate,  \* the candidate that call met last
  refine,     \* a title on its way through the two stages of the API
  server      \* the API: its settings, what it parsed and scheduled, its last answer

vars == <<title, now, pc, result, processed, parser, calls, titles, results,
          potential_matches, candidate, refine, server>>

\* what the single caller of main leaves alone
others == <<parser, calls, titles, results, potential_matches, candidate, refine, server>>

\* the attributes __init__ sets
TorrentParser ==
  [season_patterns |-> season_patterns,
   episode_patterns |-> episode_patterns,
   resolution_patterns |-> resolution_patterns,
   video_codec_patterns |-> video_codec_patterns,
   audio_codec_patterns |-> audio_codec_patterns,
   language_patterns |-> language_patterns,
   filesize_patterns |-> filesize_patterns,
   filetype_patterns |-> filetype_patterns,
   quality_patterns |-> quality_patterns,
   year_patterns |-> year_patterns,
   website_patterns |-> website_patterns,
   encoder_patterns |-> encoder_patterns,
   group_patterns |-> group_patterns,
   reject_hashed_regexes |-> reject_hashed_regexes,
   pre_substitution_regexes |-> pre_substitution_regexes,
   special_episode_patterns |-> special_episode_patterns]

NumTitles == 32
ThisYear == 2026
YearsAhead == 1
MaxCandidates == 3

AllTitles == <<
  <<"S","h","o","w"," ","S","0","1","E","0","2"," ","7","2","0","p">>,
  <<"S","h","o","w"," ","2","0","1","2"," ","S","2","0","1","2">>,
  <<"C","o","m","p","l","e","t","e"," ","S","1","-","S","2","-","S","3">>,
  <<"S","h","o","w"," ","S","1","-","S","2","-","S","3">>,
  <<"S","h","o","w"," ","[","1","0","8","0","p","]">>,
  <<"S","h","o","w"," ","2","0","2","8">>,
  <<"S","u","i","t","s"," ","(","S","e","a","s","o","n"," ","0","7"," ","E","p","i","s","o","d","e"," ","0","5",")","(","w","w","w",".","k","i","n","o","k","o","p","i","l","k","a",".","p","r","o",")">>,
  <<"[","1","2","3","4","]"," ","T","i","t","l","e">>,
  <<"a","b","c",".","m","k","v">>,
  <<"-","-","-">>,
  <<"p","a","s","s","w","o","r","d"," ","y","E","n","c">>,
  <<"0","1","2","3","4","5","6","7","8","9","a","b","c","d","e","f","g","h","i","j","1","2","3","4">>,
  <<"M","o","v","i","e"," ","2","0","1","9"," ","1","0","8","0","p"," ","B","l","u","R","a","y">>,
  <<"S","h","o","w"," ","E","0","1"," ","E","0","2">>,
  <<"w","w","w",".","T","a","m","i","l","R","o","c","k","e","r","s",".","t","o"," ","-"," ","S","h","o","w">>,
  <<"S","h","o","w"," ","S","0","2","E","0","3"," ","x","2","6","4","-","G","R","P">>,
  <<"S","h","o","w"," ","S","1","-","2"," ","S","1","-","6">>,
  <<"F","i","l","m"," ","1","9","9","9","-","2","0","2","8">>,
  <<"F","i","l","m"," ","S","0","1","E","0","2">>,
  <<"C","o","l","l","e","c","t","i","o","n"," ","S","e","a","s","o","n"," ","1">>,
  <<"S","h","o","w"," ","O","V","A"," ","E","0","5">>,
  <<"S","h","o","w"," ","S","0","7"," ","7"," ","e","p","i","s","o","d","e","s">>,
  <<"S","h","o","w",".","S","0","1",".","E","0","5",".","E","0","6">>,
  <<"S","h","o","w",".","E","0","5",".","2","0","0","1","0","2",".","H","D","T","V","-","N","E","X","T">>,
  <<"S","h","o","w"," ","a","i","r","e","d"," ","E","p"," ","0","3","-","0","4">>,
  <<"S","h","o","w"," ","a","i","r","e","d"," ","E","p"," ","1","0","1","-","1","0","5">>,
  <<"S","h","o","w"," ","E","p"," ","1","9","9","9","-","2","0","0","4">>,
  <<"S","h","o","w"," ","S","0","1"," ","A","l","l"," ","E","p","i","s","o","d","e","s"," ","E","0","5">>,
  <<"S","h","o","w"," ","S","0","1","E","0","1"," ","1","5","0","0","M","B">>,
  <<"S","h","o","w"," ","2","0","1","2"," ","S","2","0">>,
  <<"S","h","o","w"," ","S","0","1","E","0","1"," ","A","C","3">>,
  <<"A","b","c","d","e","f","g","h","i","j","k","l","m","n","o","p","q","r","s","t","u","v","1","2"," ","S","1","E","2">>,
  <<"S","p","a","r","e"," ","S","0","1","E","0","1">> >>

Titles == {AllTitles[i] : i \in 1..NumTitles}

Years == ThisYear..(ThisYear + YearsAhead)

\* candidate renderings of the season and episode extractors
Renderings == {<<"S","0","1">>, <<"S","0","2">>, <<"S","0","1","-","S","0","2">>, <<"S","0","1","-","S","0","6">>, <<"E","0","1">>, <<"E","0","3">>, <<"E","0","1","-","E","0","5">>,
               <<"E","0","2","-","E","0","2">>, <<"D","a","t","e",":","2","0","1","3","-","0","9","-","2","7">>}

\* the comma-joined candidate strings of up to MaxCandidates renderings
CandidateStrings ==
  {join(<<","," ">>, seq) : seq \in UNION {[1..n -> Renderings] : n \in 1..MaxCandidates}}

\* no call in progress, no batch, no candidate
Idle ==
  /\ parser = TorrentParser
  /\ calls = <<>>
  /\ titles = <<>>
  /\ results = <<>>
  /\ potential_matches = <<>>
  /\ candidate = <<>>
  /\ refine = <<>>
  /\ server = <<>>

Init ==
  /\ title \in Titles
  /\ now \in Years
  /\ pc = "start"
  /\ result = <<>>
  /\ processed = <<>>
  /\ Idle

\* result = parser.parse(title)
Parse ==
  /\ result' = parse(title, now)
  /\ pc' = "parsed"
  /\ processed' = <<>>
  /\ UNCHANGED <<title, now, others>>

\* processed_result = post_process_result(result)
PostProcess ==
  /\ pc \in {"parsed", "processed"}
  /\ processed' \in post_process_result(result)
  /\ pc' = "processed"
  /\ UNCHANGED <<title, now, result, others>>

\* a new calendar year begins
Tick ==
  /\ now < ThisYear + YearsAhead
  /\ now' = now + 1
  /\ UNCHANGED <<title, pc, result, processed, others>>

Next == Parse \/ PostProcess \/ Tick

Spec == Init /\ [][Next]_vars

\* post_process_result called on a record that holds one candidate string
InitResolve ==
  /\ title = <<>>
  /\ now = ThisYear
  /\ pc = "parsed"
  /\ result \in {[season |-> c] : c \in CandidateStrings}
                  \cup {[episode |-> c] : c \in CandidateStrings}
  /\ processed = <<>>
  /\ Idle

NextResolve == PostProcess

SpecResolve == InitResolve /\ [][NextResolve]_vars

(***************************************************************************)
(* Concurrent callers of parse on one TorrentParser.  A call keeps what it *)
(* computes in the locals of its frames: normalized_title in parse, the    *)
(* placeholder_map of _normalize_title, exclude_numbers and                *)
(* potential_matches in parse_season.  The threads are switched between    *)
(* the stages of a call.                                                   *)
(***************************************************************************)
NumCallers == 2

Callers == 1..NumCallers

\* the titles the concurrent callers pass
SharedTitles == {<<"S","1","E","2"," ","7","2","0","p">>, <<"S","1","-","3">>, <<"a","b","c",".","m","k","v">>}

\* the frame of a caller that has not called yet
NoFrame ==
  [pc |-> "idle", title |-> <<>>, normalized_title |-> <<>>, placeholder_map |-> <<>>,
   exclude_numbers |-> {}, potential_matches |-> <<>>, result |-> <<>>]

\* a call that finds its locals in the frame of another call, which a call
\* of parse must differ from
FrameOfAnother(c) == calls[CHOOSE d \in Callers : d # c]

\* the frame in which the call of caller c finds its locals
Frame(c) == calls[c]

InitShared ==
  /\ title = <<>>
  /\ now = ThisYear
  /\ pc = "start"
  /\ result = <<>>
  /\ processed = <<>>
  /\ parser = TorrentParser
  /\ calls = [c \in Callers |-> NoFrame]
  /\ titles = <<>>
  /\ results = <<>>
  /\ potential_matches = <<>>
  /\ candidate = <<>>
  /\ refine = <<>>
  /\ server = <<>>

\* caller c calls parser.parse(t)
Call(c, t) ==
  /\ calls[c].pc \in {"idle", "returned"}
  /\ calls' = [calls EXCEPT ![c] = [NoFrame EXCEPT !.pc = "called", !.title = t]]

\* the validity check, which returns the marker, and _normalize_title
Normalize(c) ==
  /\ calls[c].pc = "called"
  /\ calls' = IF ~ _is_valid_title(Frame(c).title)
               THEN [calls EXCEPT ![c].pc = "returned",
                                  ![c].result = [error |-> <<"I","n","v","a","l","i","d"," ","t","i","t","l","e"," ","(","l","i","k","e","l","y"," ","h","a","s","h","e","d"," ","r","e","l","e","a","s","e",")">>]]
               ELSE With(NormalizeWithMap(Frame(c).title), LAMBDA st :
                      [calls EXCEPT ![c].pc = "normalized",
                                    ![c].normalized_title = st.text,
                                    ![c].placeholder_map = st.map])

\* parse_season up to its exclusion set
Exclude(c) ==
  /\ calls[c].pc = "normalized"
  /\ calls' = [calls EXCEPT ![c].pc = "excluded",
                            ![c].exclude_numbers = exclude_numbers(Frame(c).normalized_title)]

\* the two passes of parse_season over self.season_patterns
Collect(c) ==
  /\ calls[c].pc = "excluded"
  /\ calls' = [calls EXCEPT ![c].pc = "collected",
                            ![c].potential_matches =
                               SeasonCandidates(parser.season_patterns,
                                                Frame(c).normalized_title,
                                                Frame(c).exclude_numbers)]

\* the end of parse_season, the other extractors and the return of parse
Return(c) ==
  /\ calls[c].pc = "collected"
  /\ calls' = [calls EXCEPT ![c].pc = "returned",
                            ![c].result = Assemble(Frame(c).title, Frame(c).normalized_title,
                                                   SeasonResult(Frame(c).potential_matches),
                                                   now)]

NextShared ==
  /\ \E c \in Callers :
        \/ \E t \in SharedTitles : Call(c, t)
        \/ Normalize(c)
        \/ Exclude(c)
        \/ Collect(c)
        \/ Return(c)
  /\ UNCHANGED <<title, now, pc, result, processed, parser, titles, results,
                 potential_matches, candidate, refine, server>>

SpecShared == InitShared /\ [][NextShared]_vars

(***************************************************************************)
(* A caller of parse_batch.                                                *)
(***************************************************************************)
MaxBatch == 3

\* the titles of a batch
BatchTitles == SharedTitles \cup {<<"-","-","-">>}

InitBatch ==
  /\ title = <<>>
  /\ now = ThisYear
  /\ pc = "start"
  /\ result = <<>>
  /\ processed = <<>>
  /\ parser = TorrentParser
  /\ calls = <<>>
  /\ titles \in UNION {[1..n -> BatchTitles] : n \in 0..MaxBatch}
  /\ results = <<>>
  /\ potential_matches = <<>>
  /\ candidate = <<>>
  /\ refine = <<>>
  /\ server = <<>>

\* results = parser.parse_batch(titles)
ParseBatch ==
  /\ pc = "start"
  /\ results' = parse_batch(titles, now)
  /\ pc' = "parsed"
  /\ UNCHANGED <<title, now, result, processed, parser, calls, titles,
                 potential_matches, candidate, refine, server>>

NextBatch == ParseBatch

SpecBatch == InitBatch /\ [][NextBatch]_vars

(***************************************************************************)
(* The second pass of parse_season as the candidates reach its map: each   *)
(* match that yields a key is filed with the text of the match, the        *)
(* priority of its pattern and its start offset.                           *)
(***************************************************************************)
MaxPriority == 2

\* the keys of the candidates, and the matches, each a text and its start
\* offset, that yield them
CandidateKeys == {<<"S","0","7">>, <<"C","o","m","p","l","e","t","e"," ","S","e","a","s","o","n">>}
CandidateMatches == {<<<<"S","7">>, 5>>, <<<<"S","e","a","s","o","n"," ","7">>, 12>>}

InitCollect ==
  /\ title = <<>>
  /\ now = ThisYear
  /\ pc = "start"
  /\ result = <<>>
  /\ processed = <<>>
  /\ Idle

\* if match_key not in potential_matches or priority > ...[1]:
\*     potential_matches[match_key] = (match.group(0), priority, match_start)
Offer(match_key, text, priority, match_start) ==
  /\ candidate' = [key |-> match_key, text |-> text, priority |-> priority,
                   start |-> match_start]
  /\ potential_matches' = Upsert(potential_matches, match_key, text, priority, match_start)
  /\ UNCHANGED <<title, now, pc, result, processed, parser, calls, titles, results,
                 refine, server>>

NextCollect ==
  \E match_key \in CandidateKeys, m \in CandidateMatches, priority \in 1..MaxPriority :
    Offer(match_key, m[1], priority, m[2])

SpecCollect == InitCollect /\ [][NextCollect]_vars

(***************************************************************************)
(* The two stages of the API for one title: parse_with_regex, then          *)
(* LLMParser.refine_with_llm.  A confidence is counted in thousandths, so   *)
(* that hits / 8.0 is hits * 125; the sums and minima below compare as the  *)
(* floats of the code do.  What self.llm does is the caller's input: it     *)
(* raises, or it returns a text.                                            *)
(***************************************************************************)
MaxHits == 10

RefineTexts == {<<"T","h","e"," ","B","o","y","s">>, <<" ","S","h","o","w"," ">>, <<"S","h","o","w"," ","2"," ">>, <<"a"," ","b"," ","c"," ","d"," ","e"," ","f"," ","g">>}

LLMOutcomes ==
  {[raises |-> TRUE, text |-> <<>>]}
    \cup {[raises |-> FALSE, text |-> t] : t \in {<<>>, <<" ">>, <<" ","T","h","e"," ","S","h","o","w"," ">>}}

\* a score that is not capped, which the one of parse_with_regex must differ from
UncappedConfidence(hits) == hits * 125

\* confidence = min(hits / 8.0, 0.7)
confidence(hits) == min({hits * 125, 700})

\* len(remaining_text.split())
WordCount(remaining_text) ==
  Cardinality({i \in 1..Len(remaining_text) :
                 /\ remaining_text[i] \notin SPACE
                 /\ (i = 1 \/ remaining_text[i - 1] \in SPACE)})

\* refine_with_llm, llm being what self.llm does when it is called; the
\* answer says whether an exception left the method, and holds the result
refine_with_llm(parsed_data, remaining_text, original_title, llm) ==
  IF /\ WordCount(remaining_text) < 7
     /\ ~ \E i \in 1..Len(remaining_text) : remaining_text[i] \in DIGIT
  THEN [raised |-> FALSE,
        result |-> [raw |-> original_title, title |-> strip(remaining_text),
                    confidence |-> min({parsed_data.confidence + 250, 1000}),
                    notes |-> "Title derived from simple heuristics."]]
  ELSE IF llm.raises
  THEN \* except Exception as e
       [raised |-> FALSE,
        result |-> [raw |-> original_title, title |-> strip(remaining_text),
                    confidence |-> parsed_data.confidence,
                    notes |-> "LLM inference error, using regex fallback."]]
  ELSE IF strip(llm.text) # <<>>
  THEN [raised |-> FALSE,
        result |-> [raw |-> original_title, title |-> strip(llm.text),
                    confidence |-> min({parsed_data.confidence + 300, 1000}),
                    notes |-> "Title identified by LLM."]]
  ELSE [raised |-> FALSE,
        result |-> [raw |-> original_title, title |-> strip(remaining_text),
                    confidence |-> parsed_data.confidence,
                    notes |-> "LLM failed to provide a title, using fallback."]]

InitRefine ==
  /\ title = <<"S","h","o","w"," ","2"," ","7","2","0","p">>
  /\ now = ThisYear
  /\ pc = "start"
  /\ result = <<>>
  /\ processed = <<>>
  /\ parser = TorrentParser
  /\ calls = <<>>
  /\ titles = <<>>
  /\ results = <<>>
  /\ potential_matches = <<>>
  /\ candidate = <<>>
  /\ refine = [pc |-> "start"]
  /\ server = <<>>

\* regex_results, remaining_text = parse_with_regex(title), with its count of hits
RegexStage(hits, remaining_text) ==
  /\ refine.pc = "start"
  /\ refine' = [pc |-> "regex", parsed_data |-> [confidence |-> confidence(hits)],
                remaining_text |-> remaining_text]
  /\ UNCHANGED <<title, now, pc, result, processed, parser, calls, titles, results,
                 potential_matches, candidate, server>>

\* final_result = llm_parser.refine_with_llm(regex_results, remaining_text, title)
Refine(llm) ==
  /\ refine.pc = "regex"
  /\ refine' = [pc |-> "done", parsed_data |-> refine.parsed_data,
                remaining_text |-> refine.remaining_text, llm |-> llm,
                final |-> refine_with_llm(refine.parsed_data, refine.remaining_text, title, llm)]
  /\ UNCHANGED <<title, now, pc, result, processed, parser, calls, titles, results,
                 potential_matches, candidate, server>>

NextRefine ==
  \/ \E hits \in 0..MaxHits, remaining_text \in RefineTexts : RegexStage(hits, remaining_text)
  \/ \E llm \in LLMOutcomes : Refine(llm)

SpecRefine == InitRefine /\ [][NextRefine]_vars

(***************************************************************************)
(* The routes of the API.  A request is answered in one step: the           *)
(* dependency get_api_key first, then the body of the route.  parsed holds  *)
(* the titles parse_with_regex was called on and background_tasks the       *)
(* titles whose add_submission was scheduled.                               *)
(***************************************************************************)
MaxParsed == 2

ApiKeys == {None, <<>>, <<"s","e","c","r","e","t">>}
HeaderValues == {None, <<"s","e","c","r","e","t">>, <<"g","u","e","s","s">>}
ServerTitles == {<<"S","h","o","w"," ","S","0","1","E","0","2">>, <<"F","i","l","m"," ","2","0","1","2">>}

\* a dependency that lets every request through, which get_api_key must differ from
KeyNeverChecked(API_KEY, x_api_key) == TRUE

\* get_api_key returns, rather than raising HTTPException(401)
get_api_key(API_KEY, x_api_key) ==
  IF API_KEY # None /\ API_KEY # <<>> THEN x_api_key = API_KEY ELSE TRUE

\* the answer to a POST: 401 when get_api_key refuses the request, else the
\* loop of parse_title_batch, or the one call of parse_title, in which
\* process_single_title parses every title and schedules its submission
process_single_title(endpoint, x_api_key, payload) ==
  IF get_api_key(server.API_KEY, x_api_key)
  THEN [API_KEY |-> server.API_KEY,
        parsed |-> server.parsed \o payload,
        background_tasks |-> server.background_tasks \o payload,
        request |-> [endpoint |-> endpoint, x_api_key |-> x_api_key],
        response |-> [status |-> 200, results |-> Len(payload)]]
  ELSE [API_KEY |-> server.API_KEY,
        parsed |-> server.parsed,
        background_tasks |-> server.background_tasks,
        request |-> [endpoint |-> endpoint, x_api_key |-> x_api_key],
        response |-> [status |-> 401, results |-> 0]]

InitServer ==
  /\ title = <<>>
  /\ now = ThisYear
  /\ pc = "start"
  /\ result = <<>>
  /\ processed = <<>>
  /\ parser = TorrentParser
  /\ calls = <<>>
  /\ titles = <<>>
  /\ results = <<>>
  /\ potential_matches = <<>>
  /\ candidate = <<>>
  /\ refine = <<>>
  /\ server \in {[API_KEY |-> k, parsed |-> <<>>, background_tasks |-> <<>>,
                   request |-> [endpoint |-> "none", x_api_key |-> None],
                   response |-> [status |-> 0, results |-> 0]] : k \in ApiKeys}

\* POST /v1/parse
parse_title(x_api_key, payload) ==
  /\ Len(server.parsed) + 1 <= MaxParsed
  /\ server' = process_single_title("/v1/parse", x_api_key, <<payload>>)
  /\ UNCHANGED <<title, now, pc, result, processed, parser, calls, titles, results,
                 potential_matches, candidate, refine>>

\* POST /v1/parse_batch
parse_title_batch(x_api_key, payload) ==
  /\ Len(server.parsed) + Len(payload) <= MaxParsed
  /\ server' = process_single_title("/v1/parse_batch", x_api_key, payload)
  /\ UNCHANGED <<title, now, pc, result, processed, parser, calls, titles, results,
                 potential_matches, candidate, refine>>

\* GET /v1/recent, which has no dependency on get_api_key
get_recent(x_api_key, limit) ==
  /\ server' = [server EXCEPT !.request = [endpoint |-> "/v1/recent", x_api_key |-> x_api_key],
                              !.response = [status |-> 200,
                                            results |-> min({Len(server.background_tasks),
                                                             IF limit > 200 THEN 200 ELSE limit})]]
  /\ UNCHANGED <<title, now, pc, result, processed, parser, calls, titles, results,
                 potential_matches, candidate, refine>>

NextServer ==
  \E x_api_key \in HeaderValues :
    \/ \E payload \in ServerTitles : parse_title(x_api_key, payload)
    \/ \E payload \in UNION {[1..n -> ServerTitles] : n \in 0..MaxParsed} :
         parse_title_batch(x_api_key, payload)
    \/ \E limit \in {1, 50, 201} : get_recent(x_api_key, limit)

SpecServer == InitServer /\ [][NextServer]_vars

(***************************************************************************)
(* The claims.                                                             *)
(***************************************************************************)
ErrorMarker == [error |-> <<"I","n","v","a","l","i","d"," ","t","i","t","l","e"," ","(","l","i","k","e","l","y"," ","h","a","s","h","e","d"," ","r","e","l","e","a","s","e",")">>]

\* the three ways a title fails the validity check, as C1 lists them
FailsValidityCheck(t) ==
  \/ contains(lower(t), <<"p","a","s","s","w","o","r","d">>) /\ contains(lower(t), <<"y","e","n","c">>)
  \/ \A i \in 1..Len(t) : ~ isalnum(t[i])
  \/ \E k \in 1..Len(reject_hashed_regexes) :
       match(reject_hashed_regexes[k], sub(Cat(<<Lit(<<".">>), Rep(In(LOWER \cup UPPER \cup DIGIT), 2, 4), Eol>>), <<>>, t)) # NoMatch

\* C1: for a title that fails the validity check, parse returns exactly the
\* one-key record {"error": "Invalid title (likely hashed release)"}: it holds
\* no original_title, no normalized_title and no extractor's value.
C1_InvalidTitleGivesErrorMarker ==
  (pc # "start" /\ FailsValidityCheck(title)) => result = ErrorMarker

\* C1, reached: parse has returned the marker for a title whose form without
\* its extension matches a reject signature.
C1_Witness ==
  /\ pc = "parsed"
  /\ title = <<"a","b","c",".","m","k","v">>
  /\ FailsValidityCheck(title)
  /\ result = ErrorMarker

\* the digit runs of a rendering such as "S2012" or "E01-E05"
NumbersOf(rendering) == ToSet(findall0(Rep(In(DIGIT), 1, -1), rendering))

\* the values of a comma-joined field of the record r, none if r lacks it
ValuesOf(r, key) ==
  IF key \in DOMAIN r THEN ToSet(StrippedValues(r[key])) ELSE {}

\* C2: when parse reports the 4-digit string y as the year, or as an end of a
\* year range, no season value and no episode value of the same record is
\* rendered from a number equal to y.
C2_YearNeverSeasonOrEpisode ==
  (pc # "start" /\ "year" \in DOMAIN result) =>
    \A y \in {p \in ToSet(split(result["year"], "-")) : Len(p) = 4} :
      \A v \in ValuesOf(result, "season") \cup ValuesOf(result, "episode") :
        y \notin NumbersOf(v)

\* b - a for a range "S<a>-S<b>" or "E<a>-E<b>", and -1 for any other value
RangeSpan(v) ==
  LET parts == split(v, "-")
  IN IF /\ Len(parts) = 2
        /\ parts[1] # <<>> /\ parts[2] # <<>>
        /\ parts[1][1] \in {"S", "E"} /\ parts[2][1] = parts[1][1]
        /\ isdigit(Tail(parts[1])) /\ isdigit(Tail(parts[2]))
     THEN int(Tail(parts[2])) - int(Tail(parts[1]))
     ELSE -1

\* C3: when the candidate string for season or for episode holds a range of
\* positive span, the post-processor returns a range of the largest span.
C3_RangeDominance ==
  pc = "processed" =>
    \A key \in {"season", "episode"} \cap DOMAIN result :
      LET widest == max({-1} \cup {RangeSpan(v) : v \in ValuesOf(result, key)})
      IN widest > 0 => RangeSpan(processed[key]) = widest

\* C4: for a title that holds the aggregate "S1-S2-S3" the season result has
\* the range S01-S03 and none of the singletons S01, S02, S03.
C4_ComplexSeasonSuppression ==
  (pc # "start" /\ contains(title, <<"S","1","-","S","2","-","S","3">>) /\ "season" \in DOMAIN result) =>
    /\ <<"S","0","1","-","S","0","3">> \in ValuesOf(result, "season")
    /\ ValuesOf(result, "season") \cap {<<"S","0","1">>, <<"S","0","2">>, <<"S","0","3">>} = {}

\* C5: every substring that a preserve rule recorded while the title was
\* normalised stands in the normalised title, which holds no placeholder.
C5_PreservedSpansRestored ==
  (pc # "start" /\ "normalized_title" \in DOMAIN result) =>
    /\ \A k \in 1..Len(NormalizeWithMap(title).map) :
         contains(result["normalized_title"], NormalizeWithMap(title).map[k][2])
    /\ ~ contains(result["normalized_title"], <<"_","_","P","R","E","S","E","R","V","E","D","_">>)

\* C6: a second call of parse on the same title returns the record the first
\* call returned, and a second call of the post-processor on the same record
\* returns the value the first call returned.
C6_Determinism ==
  [][/\ (pc = "parsed" /\ pc' = "parsed") => result' = result
     /\ (pc = "processed" /\ pc' = "processed") => processed' = processed]_vars

\* the number of entries of the candidate string of r[key] equal to v
Occurrences(r, key, v) ==
  Cardinality({k \in 1..Len(StrippedValues(r[key])) : StrippedValues(r[key])[k] = v})

AllowedTlds ==
  {<<"c","o","m">>, <<"o","r","g">>, <<"n","e","t">>, <<"w","s">>, <<"i","n","f","o">>, <<"b","i","z">>, <<"t","v">>, <<"c","c">>, <<"i","o">>, <<"m","e">>, <<"u","s">>, <<"u","k">>,
   <<"d","e">>, <<"f","r">>, <<"f","i">>, <<"e","s">>, <<"i","t">>, <<"r","u">>, <<"c","a">>, <<"a","u">>, <<"n","z">>, <<"j","p">>, <<"c","n">>, <<"i","n">>, <<"b","r">>,
   <<"m","x">>, <<"l","v">>, <<"p","r","o">>, <<"x","y","z">>, <<"s","i","t","e">>, <<"o","n","l","i","n","e">>, <<"t","e","c","h">>, <<"c","l","u","b">>, <<"f","u","n">>, <<"s","t","o","r","e">>,
   <<"s","h","o","p">>, <<"b","l","o","g">>, <<"a","p","p">>, <<"d","e","v">>, <<"e","d","u">>, <<"g","o","v">>, <<"m","i","l">>}

\* C8: every website value that parse_website reports ends in a listed
\* top-level domain, has six characters or more and has no dot-separated
\* part that is a season, episode or quality word.
C8_WebsiteWellFormed ==
  (pc # "start" /\ "website" \in DOMAIN result) =>
    \A v \in ValuesOf(result, "website") :
      LET parts == split(lower(v), ".")
      IN /\ Len(parts) >= 2
         /\ parts[Len(parts)] \in AllowedTlds
         /\ Len(v) >= 6
         /\ \A k \in 1..Len(parts) : parts[k] \notin false_positives

\* C9: parsing "Suits (Season 07 Episode 05)(www.kinokopilka.pro)" and
\* post-processing the record gives season S07, episode E05 and the one
\* website kinokopilka.pro.
C9_SuitsScenario ==
  (pc = "processed" /\ title = <<"S","u","i","t","s"," ","(","S","e","a","s","o","n"," ","0","7"," ","E","p","i","s","o","d","e"," ","0","5",")","(","w","w","w",".","k","i","n","o","k","o","p","i","l","k","a",".","p","r","o",")">>) =>
    /\ processed["season"] = <<"S","0","7">>
    /\ processed["episode"] = <<"E","0","5">>
    /\ "website" \in DOMAIN processed
    /\ processed["website"] = <<"k","i","n","o","k","o","p","i","l","k","a",".","p","r","o">>

\* C10: the group that parse_group reports never consists of digits only.
C10_GroupNeverNumeric ==
  (pc # "start" /\ "group" \in DOMAIN result) => ~ isdigit(result["group"])

\* C11: a record that parse returns with content_type "movie" has no season
\* key and no episode key, whatever the two extractors found.
C11_MovieHasNoSeasonOrEpisode ==
  (pc # "start" /\ "content_type" \in DOMAIN result /\ result["content_type"] = <<"m","o","v","i","e">>)
    => DOMAIN result \cap {"season", "episode"} = {}

\* C11, reached: parse has returned the record of a movie for whose title
\* the season extractor and the episode extractor both found a value.
C11_Witness ==
  /\ pc = "parsed"
  /\ title = <<"F","i","l","m"," ","S","0","1","E","0","2">>
  /\ result["content_type"] = <<"m","o","v","i","e">>
  /\ parse_season(title) = <<"S","0","1">>
  /\ parse_episode(title, now) = <<"E","0","2">>
  /\ DOMAIN result \cap {"season", "episode"} = {}

\* C12: the record parse returns for a valid title holds original_title and
\* normalized_title, maps no key to None and is no error marker; a category
\* in which nothing matched is absent from it.
C12_NoNoneValues ==
  (pc # "start" /\ _is_valid_title(title)) =>
    /\ {"original_title", "normalized_title"} \subseteq DOMAIN result
    /\ "error" \notin DOMAIN result
    /\ \A k \in DOMAIN result \ {"anime_info"} : result[k] # None
    /\ "anime_info" \in DOMAIN result => DOMAIN result["anime_info"] # {}

\* C12, reached: parse has returned a record with a resolution and, as the
\* title holds no year, without the key year.
C12_Witness ==
  /\ pc = "parsed"
  /\ title = <<"S","h","o","w"," ","S","0","1","E","0","2"," ","7","2","0","p">>
  /\ year_of(_normalize_title(title), now) = None
  /\ result["resolution"] = <<"7","2","0","p">>
  /\ "year" \notin DOMAIN result

\* what parse returns for each title of the concurrent callers when it runs
\* alone
Alone == [t \in BatchTitles |-> parse(t, ThisYear)]

\* C13: in every interleaving of the calls that concurrent callers make on
\* one TorrentParser, a call returns what parse returns for its title when
\* run alone, the attributes of the instance stay as __init__ set them, and
\* a step of one call leaves the frames of the other calls as they are.
C13_CallsIndependent ==
  /\ [](/\ parser = TorrentParser
        /\ \A c \in Callers : calls[c].pc = "returned" => calls[c].result = Alone[calls[c].title])
  /\ [][\E c \in Callers : \A d \in Callers \ {c} : calls'[d] = calls[d]]_vars

\* C13, reached: one call has returned the record of its title while the
\* call of another caller, for another title, is between the two halves of
\* parse_season.
C13_Witness ==
  /\ calls # <<>>
  /\ \E c, d \in Callers :
        /\ calls[c].pc = "returned"
        /\ calls[c].title = <<"S","1","-","3">>
        /\ calls[c].result = Alone[calls[c].title]
        /\ calls[d].pc = "excluded"
        /\ calls[d].title = <<"S","1","E","2"," ","7","2","0","p">>

\* C14: parse_batch returns a list as long as titles whose i-th element is
\* what parse returns for titles[i]; for an invalid title that element is the
\* error marker, and the other elements stay what they are without it.
C14_BatchIsElementwise ==
  pc = "parsed" =>
    /\ Len(results) = Len(titles)
    /\ \A i \in 1..Len(titles) :
         /\ results[i] = Alone[titles[i]]
         /\ ~ _is_valid_title(titles[i]) => results[i] = ErrorMarker

\* C14, reached: a batch with an invalid title between two valid ones has
\* been parsed.
C14_Witness ==
  /\ pc = "parsed"
  /\ titles = <<<<"S","1","E","2"," ","7","2","0","p">>, <<"a","b","c",".","m","k","v">>, <<"S","1","-","3">>>>
  /\ Len(results) = 3
  /\ results[1]["season"] = <<"S","0","1">>
  /\ results[2] = ErrorMarker
  /\ "season" \in DOMAIN results[3]

\* the entry of the candidate map pm that is filed under key
EntryOf(pm, key) == pm[CHOOSE k \in 1..Len(pm) : pm[k].key = key]

\* C15: the season value lists the keys of the candidate map by priority,
\* highest first, keys of equal priority by start offset, earliest first,
\* and no key twice.
C15_SeasonOrder ==
  (pc # "start" /\ "season" \in DOMAIN result) =>
    \E pm \in {SeasonCandidates(season_patterns, result["normalized_title"],
                                 exclude_numbers(result["normalized_title"]))} :
      \E keys \in {StrippedValues(result["season"])} :
        \A i, j \in 1..Len(keys) :
          i < j =>
            /\ keys[i] # keys[j]
            /\ \/ EntryOf(pm, keys[i]).priority > EntryOf(pm, keys[j]).priority
               \/ /\ EntryOf(pm, keys[i]).priority = EntryOf(pm, keys[j]).priority
                  /\ EntryOf(pm, keys[i]).start <= EntryOf(pm, keys[j]).start

\* C19: a candidate whose key the map holds replaces the stored entry only
\* when its priority is strictly higher; otherwise text, priority and start
\* of the entry stay, so the entry of a key has a priority no candidate of
\* that key exceeded.
C19_StrictlyHigherReplaces ==
  /\ [](candidate # <<>> =>
         /\ \E k \in 1..Len(potential_matches) : potential_matches[k].key = candidate.key
         /\ EntryOf(potential_matches, candidate.key).priority >= candidate.priority)
  /\ [][\A k \in 1..Len(potential_matches) :
           /\ k <= Len(potential_matches')
           /\ potential_matches'[k].key = potential_matches[k].key
           /\ \/ potential_matches'[k] = potential_matches[k]
              \/ potential_matches'[k].priority > potential_matches[k].priority]_vars

\* C19, reached: a candidate of the priority of the stored entry of its key,
\* found elsewhere in another text, has left the entry as it was.
C19_Witness ==
  /\ candidate # <<>>
  /\ EntryOf(potential_matches, candidate.key).priority = candidate.priority
  /\ EntryOf(potential_matches, candidate.key).text # candidate.text
  /\ EntryOf(potential_matches, candidate.key).start # candidate.start

\* one of the special-episode indicators is found in the text s
HasSpecialIndicator(s) ==
  \E k \in 1..Len(special_episode_patterns) :
    search(special_episode_patterns[k].pattern_name, s) # NoMatch

\* C16: when a special-episode indicator matches the normalised title,
\* parse_episode returns exactly "Special".
C16_SpecialOnly ==
  (pc # "start" /\ _is_valid_title(title) /\ HasSpecialIndicator(result["normalized_title"]))
    => parse_episode(title, now) = <<"S","p","e","c","i","a","l">>

\* C17: no record holds both the season S<n> and the episode count
\* rendering E1-E<n> of the same number n.
C17_CountIsNotASeason ==
  (pc # "start" /\ {"season", "episode"} \subseteq DOMAIN result) =>
    \A v \in ValuesOf(result, "episode") :
      (startswith(v, <<"E","1","-","E">>) /\ isdigit(SubSeq(v, 5, Len(v)))) =>
        \A s \in ValuesOf(result, "season") :
          ~ (/\ startswith(s, <<"S">>) /\ isdigit(Tail(s))
             /\ int(Tail(s)) = int(SubSeq(v, 5, Len(v))))

\* C18: every episode value of the form E<n> or E<a>-E<b> writes each
\* number with two digits or more.
C18_EpisodesZeroPadded ==
  (pc # "start" /\ "episode" \in DOMAIN result) =>
    \A v \in ValuesOf(result, "episode") :
      match(Cat(<<LitCS(<<"E">>), Rep(In(DIGIT), 1, -1), Rep(Cat(<<LitCS(<<"-","E">>), Rep(In(DIGIT), 1, -1)>>), 0, 1), Eol>>), v) # NoMatch
        => match(Cat(<<LitCS(<<"E">>), Rep(In(DIGIT), 2, -1), Rep(Cat(<<LitCS(<<"-","E">>), Rep(In(DIGIT), 2, -1)>>), 0, 1), Eol>>), v) # NoMatch

\* the number of the patterns of the list indicators found in the text s
Votes(indicators, s) ==
  Cardinality({k \in 1..Len(indicators) : search(indicators[k], s) # NoMatch})

\* C20: the content type is "movie" when more movie indicators than series
\* indicators match the normalised title, and "series" otherwise: on a tie
\* and when no indicator matches.
C20_ContentTypeVote ==
  (pc # "start" /\ "content_type" \in DOMAIN result) =>
    result["content_type"] =
      IF Votes(movie_indicators, result["normalized_title"])
           > Votes(series_indicators, result["normalized_title"])
      THEN <<"m","o","v","i","e">> ELSE <<"s","e","r","i","e","s">>

\* the keys of the extractors that return on their first valid match
SingleValueKeys ==
  {"resolution", "video_codec", "audio_codec", "filesize", "filetype", "year", "website",
   "encoder", "group"}

\* C21: each of the extractors of resolution, video codec, audio codec, file
\* size, file type, year, website, encoder and group returns at most one
\* value: the match of a later entry of its registry is not appended.
C21_SingleValue ==
  pc # "start" =>
    \A key \in SingleValueKeys \cap DOMAIN result : Len(split(result[key], ",")) = 1

\* the matches of the episode range patterns in the normalised title nt,
\* each with the index of its registry entry
RangeMatches(nt) ==
  UNION {{<<k, m>> : m \in ToSet(finditer(episode_patterns[k].re, nt))} :
           k \in {j \in DOMAIN episode_patterns :
                    HasKey(range_patterns, episode_patterns[j].name) /\ episode_patterns[j].n >= 2}}

\* both numbers of the range match m are 4-digit plausible calendar years
BothPlausibleYears(nt, m, year) ==
  \A num \in {group(nt, m, 1), group(nt, m, 2)} :
    Len(num) = 4 /\ isdigit(num) /\ PlausibleYear(num, year)

\* the window of 20 characters around the numbers of the range match m holds
\* a year-indicating word
YearWordNearby(nt, m) ==
  AnyIn(<<<<"y","e","a","r">>, <<"a","i","r","e","d">>, <<"r","e","l","e","a","s","e","d">>, <<"b","r","o","a","d","c","a","s","t">>, <<"U+00A9">>, <<"(","c",")">>>>,
        lower(slice(nt, max({0, start_of(m, 1) - 20}),
                    min({Len(nt), start_of(m, 1) + Len(group(nt, m, 1))
                                    + Len(group(nt, m, 2)) + 20}))))

\* the loop body of parse_episode files nothing for the match em[2] of the
\* entry of index em[1]
RangeRejected(nt, em, year) ==
  \E st \in {[episode_matches |-> <<>>, potential_matches |-> <<>>]} :
    EpisodeStep(st, episode_patterns[em[1]], em[2],
                [title |-> nt, patterns |-> episode_patterns,
                 exclude |-> {}, season_numbers |-> {}, now |-> year]) = st

\* C22 as claimed: a range that an episode range pattern matches is rejected
\* when its two numbers are 4-digit plausible calendar years, and when a
\* year-indicating word stands in the window around it, whatever the number
\* of digits of the two numbers.
C22_YearRangeRejected ==
  (pc # "start" /\ "normalized_title" \in DOMAIN result) =>
    \A em \in RangeMatches(result["normalized_title"]) :
      (\/ BothPlausibleYears(result["normalized_title"], em[2], now)
       \/ YearWordNearby(result["normalized_title"], em[2]))
      => RangeRejected(result["normalized_title"], em, now)

\* C22, amended: the rule of the year-indicating word applies to a range
\* whose two numbers both have three digits or more.
C22_YearRangeRejectedFromThreeDigits ==
  (pc # "start" /\ "normalized_title" \in DOMAIN result) =>
    \A em \in RangeMatches(result["normalized_title"]) :
      (\/ BothPlausibleYears(result["normalized_title"], em[2], now)
       \/ /\ YearWordNearby(result["normalized_title"], em[2])
          /\ Len(group(result["normalized_title"], em[2], 1)) >= 3
          /\ Len(group(result["normalized_title"], em[2], 2)) >= 3)
      => RangeRejected(result["normalized_title"], em, now)

\* C22, reached: the range 101-105 after "aired" has been rejected and the
\* episode value holds no E101-E105.
C22_Witness ==
  /\ pc = "parsed"
  /\ title = <<"S","h","o","w"," ","a","i","r","e","d"," ","E","p"," ","1","0","1","-","1","0","5">>
  /\ \E em \in RangeMatches(result["normalized_title"]) :
       /\ group(result["normalized_title"], em[2], 1) = <<"1","0","1">>
       /\ YearWordNearby(result["normalized_title"], em[2])
       /\ RangeRejected(result["normalized_title"], em, now)
  /\ <<"E","1","0","1","-","E","1","0","5">> \notin ValuesOf(result, "episode")

\* the labels of the phrase patterns of parse_episode that match nt
PhraseLabels(nt) ==
  {episode_patterns[k].label :
     k \in {j \in DOMAIN episode_patterns :
              /\ episode_patterns[j].name \in complete_patterns
              /\ search(episode_patterns[j].re, nt) # NoMatch}}

\* C23: when a complete, all-episodes or finale phrase pattern matches the
\* normalised title, the episode value holds the labels of the matching
\* phrase patterns and nothing that the numeric scan would have filed: no
\* E<nn>, no range, no absolute number and no date.
C23_PhraseShortCircuits ==
  (pc # "start" /\ "episode" \in DOMAIN result) =>
    \E labels \in {PhraseLabels(result["normalized_title"])} :
      labels # {} =>
        /\ labels \subseteq ValuesOf(result, "episode")
        /\ ValuesOf(result, "episode") \subseteq labels \cup {<<"S","p","e","c","i","a","l">>}

\* C23, reached: "All Episodes" matched in a title that also holds E05, and
\* the episode value holds phrase labels only.
C23_Witness ==
  /\ pc = "parsed"
  /\ title = <<"S","h","o","w"," ","S","0","1"," ","A","l","l"," ","E","p","i","s","o","d","e","s"," ","E","0","5">>
  /\ <<"A","l","l"," ","E","p","i","s","o","d","e","s">> \in PhraseLabels(result["normalized_title"])
  /\ search(LitCS(<<"E","0","5">>), result["normalized_title"]) # NoMatch
  /\ "episode" \in DOMAIN result
  /\ <<"E","0","5">> \notin ValuesOf(result, "episode")

\* C24: a file size given as a whole number of MB is rendered in MB when the
\* number is at most 1000, and in GB with two decimals when it is over 1000.
C24_SizeRendering ==
  (pc # "start" /\ "filesize" \in DOMAIN result) =>
    \E m \in {search(Cat(<<WordB, Grp(1, Rep(In(DIGIT), 1, -1)), Rep(In(SPACE), 0, 1), Lit(<<"M","B">>), WordB>>), result["normalized_title"])} :
      m # NoMatch =>
        \E num \in {group(result["normalized_title"], m, 1)} :
          IF int(num) <= 1000
          THEN result["filesize"] = num \o <<"M","B">>
          ELSE match(Cat(<<Bol, Rep(In(DIGIT), 1, -1), LitCS(<<".">>), Rep(In(DIGIT), 2, 2), LitCS(<<"G","B">>), Eol>>), result["filesize"]) # NoMatch

\* C25: pre-processing a name that ends in .E<2-4 digits>.<6-digit date>.
\* <rest>-NEXT replaces that tail by .S01E<the same digits>.<the same rest>
\* -NEXT, so that neither the rewritten title nor the normalised title of the
\* record holds a literal $1 or $2 in place of the episode number.
C25_KoreanRewriteCarriesCaptures ==
  pc # "start" =>
    \E m \in {search(Cat(<<Lit(<<".","E">>), Grp(1, Rep(In(DIGIT), 2, 4)), Lit(<<".">>), Rep(In(DIGIT), 6, 6), Lit(<<".">>), Grp(2, Cat(<<Rep(NotIn({"\n"}), 0, -1), Lit(<<"-","N","E","X","T">>)>>)), Eol>>), title)} :
      m # NoMatch =>
        /\ _pre_process_title(title)
             = slice(title, 0, m.start - 1) \o <<".","S","0","1","E">> \o group(title, m, 1)
                 \o <<".">> \o group(title, m, 2)
        /\ ~ contains(_pre_process_title(title), <<"$","1">>)
        /\ ~ contains(_pre_process_title(title), <<"$","2">>)
        /\ contains(result["normalized_title"], <<"S","0","1","E">> \o group(title, m, 1))

\* the numbers harvested for the normalised title nt: every full 4-digit
\* year, and the resolution, file-size and codec numbers
HarvestedNumbers(nt) ==
  ToSet(findall0(Cat(<<WordB, Alt(<<LitCS(<<"1","9">>), LitCS(<<"2","0">>)>>), Rep(In(DIGIT), 2, 2), WordB>>), nt))
    \cup (exclude_numbers(nt) \ ToSet(findall1(Cat(<<WordB, Grp(1, Alt(<<LitCS(<<"1","9">>), LitCS(<<"2","0">>)>>)), Rep(In(DIGIT), 2, 2), WordB>>), nt)))
    \cup (ToSet(findall1(Cat(<<WordB, Grp(1, Alt(<<LitCS(<<"1","9">>), LitCS(<<"2","0">>)>>)), Rep(In(DIGIT), 2, 2), WordB>>), nt))
            \cap {group(size, search(Grp(1, Cat(<<Rep(In(DIGIT), 1, -1), Rep(LitCS(<<".">>), 0, 1), Rep(In(DIGIT), 0, -1)>>)), size), 1) :
                    size \in ToSet(findall0(Cat(<<WordB, Rep(In(DIGIT), 1, -1), Rep(Lit(<<".">>), 0, 1), Rep(In(DIGIT), 0, -1), In({"G","K","M","g","k","m"}), Lit(<<"B">>), WordB>>), nt))})

\* C26: parse_season discards a numbered season candidate only when its
\* captured number is literally one of the numbers harvested for the title,
\* so the season of the record of a series is the one that is left when
\* exactly those candidates are discarded; a season 19 or 20 next to a year
\* 19xx or 20xx is kept.
C26_OnlyHarvestedNumbersExcluded ==
  (pc # "start" /\ "content_type" \in DOMAIN result /\ result["content_type"] = <<"s","e","r","i","e","s">>) =>
    \E season \in {SeasonResult(SeasonCandidates(season_patterns, result["normalized_title"],
                                                 HarvestedNumbers(result["normalized_title"])))} :
      IF season = None THEN "season" \notin DOMAIN result ELSE ValuesOf(result, "season") = ToSet(StrippedValues(season))

\* the title t without a trailing extension of 2 to 4 letters or digits
WithoutExtension(t) == sub(Cat(<<Lit(<<".">>), Rep(In(LOWER \cup UPPER \cup DIGIT), 2, 4), Eol>>), <<>>, t)

\* the first 24 characters of s are all ASCII letters or digits
HashLikeHead(s) ==
  Len(s) >= 24 /\ \A i \in 1..24 : s[i] \in DIGIT \cup LOWER \cup UPPER

\* C27: parse returns the error marker for every title that, once its
\* trailing extension is removed, starts with 24 ASCII letters or digits,
\* whatever follows them, season, episode and resolution tokens included.
C27_LongAlphanumericHeadRejected ==
  (pc # "start" /\ HashLikeHead(WithoutExtension(title))) => result = ErrorMarker

\* C27, reached: a title of 24 letters and digits followed by the season and
\* episode token S1E2 has been answered with the error marker.
C27_Witness ==
  /\ pc = "parsed"
  /\ title = <<"A","b","c","d","e","f","g","h","i","j","k","l","m","n","o","p","q","r","s","t","u","v","1","2"," ","S","1","E","2">>
  /\ HashLikeHead(WithoutExtension(title))
  /\ search(Cat(<<Lit(<<"S">>), Grp(1, Rep(In(DIGIT), 1, -1)), Lit(<<"E">>), Grp(2, Rep(In(DIGIT), 1, -1))>>), title) # NoMatch
  /\ result = ErrorMarker

\* C28: the audio codec of a record never holds the placeholder # of a
\* registry label, and a numbered codec is rendered as the codec letters found
\* in the title followed by the captured number, so the rendering, whatever
\* its letter case, occurs in the normalised title.
C28_AudioCodecRendering ==
  (pc # "start" /\ "audio_codec" \in DOMAIN result) =>
    /\ ~ contains(result["audio_codec"], <<"#">>)
    /\ search(In(DIGIT), result["audio_codec"]) # NoMatch
         => contains(lower(result["normalized_title"]), lower(result["audio_codec"]))

\* C29: refine_with_llm lets no exception of the inference out; when the
\* inference raises or returns an empty text, the title of the result is the
\* stripped leftover of the regex stage and its confidence is that of the
\* regex stage; whatever happens, the confidence of the result is at least
\* that of the regex stage and at most 1.0.
C29_RefineFallsBack ==
  (refine # <<>> /\ refine.pc = "done") =>
    /\ ~ refine.final.raised
    /\ ((WordCount(refine.remaining_text) >= 7 \/ \E i \in 1..Len(refine.remaining_text) :
                                                     refine.remaining_text[i] \in DIGIT)
        /\ (refine.llm.raises \/ strip(refine.llm.text) = <<>>))
       => /\ refine.final.result.title = strip(refine.remaining_text)
          /\ refine.final.result.confidence = refine.parsed_data.confidence
    /\ refine.final.result.confidence >= refine.parsed_data.confidence
    /\ refine.final.result.confidence <= 1000

\* C29, reached: the inference has raised for a leftover that holds a digit,
\* and refine_with_llm has answered with the leftover and the capped score of
\* the regex stage.
C29_Witness ==
  /\ refine # <<>>
  /\ refine.pc = "done"
  /\ refine.llm.raises
  /\ refine.remaining_text = <<"S","h","o","w"," ","2"," ">>
  /\ refine.parsed_data.confidence = 700
  /\ refine.final.result.title = <<"S","h","o","w"," ","2">>
  /\ refine.final.result.confidence = 700

\* the request the server has just answered is a POST to a parsing route
ParsingRequest(s) == s.request.endpoint \in {"/v1/parse", "/v1/parse_batch"}

\* a step of the server that answers a request as C30 says
AnsweredAsKeyed ==
  /\ (ParsingRequest(server') /\ server'.API_KEY \notin {None, <<>>}
        /\ server'.request.x_api_key # server'.API_KEY)
     => /\ server'.response.status = 401
        /\ server'.parsed = server.parsed
        /\ server'.background_tasks = server.background_tasks
  /\ (server'.API_KEY \in {None, <<>>}) => (server'.response.status = 200)
  /\ (server'.request.endpoint = "/v1/recent") => (server'.response.status = 200)

=============================================================================
